---- MODULE Spec2Model ----
(***************************************************************************)
(* The code-review assistant.                                              *)
(*                                                                         *)
(* Its history store: the express server that keeps a deduplicated table   *)
(* of (originalCode, improvedCode) pairs in SQLite (POST /api/history,     *)
(* GET /api/history).  Strings of the store are sequences of                *)
(* one-character strings.  JSON values carry a kind, SQL values carry a    *)
(* storage class, so that the JavaScript coercions of the handler          *)
(* (truthiness, +, ||, ?.) and the column affinities of the table are      *)
(* computed, not assumed.                                                  *)
(*                                                                         *)
(* Its library, reviewCode and chatWithCode, and the chat tab of the page  *)
(* that calls chatWithCode.  An invocation is a frame that runs up to its  *)
(* await and, once the service has replied, from it.  Texts of the         *)
(* library are strings, so that includes, trim and JSON.parse are          *)
(* computed on their characters.                                           *)
(***************************************************************************)
EXTENDS Integers, Sequences, FiniteSets, TLC

(* ------------------------------ bounds -------------------------------- *)

\* requests issued in one behaviour
MaxCalls == 2
\* requests that are sent and not yet handled
MaxInFlight == 2
\* the calls of handleReview, where one review is followed to its end
MaxReviews == 1
\* the files of the workspace
MaxFiles == 3
\* readings the wall clock advances through
MaxTime == 1

(* ------------------------- program constants -------------------------- *)

\* LIMIT 100 of the SELECT
ListLimit == 100
\* the statement has eight anonymous parameters
ParamCount == 8

(* --------------------------- JSON values ------------------------------ *)

Missing == [kind |-> "undefined"]
JsNull == [kind |-> "null"]
Str(s) == [kind |-> "string", s |-> s]
Num(n) == [kind |-> "number", n |-> n]
Bool(b) == [kind |-> "boolean", b |-> b]
Arr(xs) == [kind |-> "array", xs |-> xs]
Obj(fields) == [kind |-> "object", fields |-> fields]
EmptyObj == Obj([k \in {} |-> Missing])

\* JavaScript truthiness, as tested by ! and ||
Truthy(v) ==
  CASE v.kind = "undefined" -> FALSE
    [] v.kind = "null" -> FALSE
    [] v.kind = "string" -> Len(v.s) > 0
    [] v.kind = "number" -> v.n # 0
    [] v.kind = "boolean" -> v.b
    [] OTHER -> TRUE

\* a || b
OrElse(a, b) == IF Truthy(a) THEN a ELSE b

\* o?.k
OptField(o, k) ==
  IF o.kind = "object" /\ k \in DOMAIN o.fields THEN o.fields[k] ELSE Missing

DigitChars == <<"0", "1", "2", "3", "4", "5", "6", "7", "8", "9">>

RECURSIVE NatText(_)
NatText(n) ==
  IF n < 10 THEN <<DigitChars[n + 1]>>
  ELSE NatText(n \div 10) \o <<DigitChars[(n % 10) + 1]>>

IntText(n) == IF n < 0 THEN <<"-">> \o NatText(-n) ELSE NatText(n)

RECURSIVE JoinComma(_)
\* ToString of a JSON value, as string concatenation applies it
RECURSIVE ToText(_)
ToText(v) ==
  CASE v.kind = "string" -> v.s
    [] v.kind = "number" -> IntText(v.n)
    [] v.kind = "boolean" -> IF v.b THEN <<"t", "r", "u", "e">>
                             ELSE <<"f", "a", "l", "s", "e">>
    [] v.kind = "array" -> JoinComma(v.xs)
    [] v.kind = "object" -> <<"[", "o", "b", "j", "e", "c", "t", " ",
                              "O", "b", "j", "e", "c", "t", "]">>
    [] v.kind = "null" -> <<"n", "u", "l", "l">>
    [] OTHER -> <<"u", "n", "d", "e", "f", "i", "n", "e", "d">>

JoinComma(xs) ==
  IF Len(xs) = 0 THEN <<>>
  ELSE IF Len(xs) = 1 THEN ToText(xs[1])
  ELSE ToText(xs[1]) \o <<",">> \o JoinComma(Tail(xs))

\* ToNumber of a number or a boolean
ToNumber(v) == IF v.kind = "number" THEN v.n ELSE IF v.b THEN 1 ELSE 0

\* a + b on two truthy operands: a string as soon as one operand is a string,
\* an array or an object, a number otherwise
Plus(a, b) ==
  IF a.kind \in {"string", "array", "object"} \/ b.kind \in {"string", "array", "object"}
  THEN Str(ToText(a) \o ToText(b))
  ELSE Num(ToNumber(a) + ToNumber(b))

\* sha256 hex digest of a text, taken as collision-free
Sha256Hex(s) == <<"sha256:">> \o s

(* ---------------------------- SQL values ------------------------------ *)

Text(s) == [type |-> "text", v |-> s]
Integer(n) == [type |-> "integer", v |-> n]
Real(n) == [type |-> "real", v |-> n]
Null == [type |-> "null"]

Thrown == [ok |-> FALSE, vals |-> <<>>]
Bound(vals) == [ok |-> TRUE, vals |-> vals]

\* one argument of stmt.run: the SQL values it binds, or a thrown TypeError;
\* an array is spread into anonymous parameters, a plain object names none
BindArg(v) ==
  CASE v.kind = "string" -> Bound(<<Text(v.s)>>)
    [] v.kind = "number" -> Bound(<<Real(v.n)>>)
    [] v.kind = "undefined" -> Bound(<<Null>>)
    [] v.kind = "null" -> Bound(<<Null>>)
    [] v.kind = "array" ->
         IF \A i \in 1..Len(v.xs) : v.xs[i].kind = "string"
         THEN Bound([i \in 1..Len(v.xs) |-> Text(v.xs[i].s)])
         ELSE Thrown
    [] v.kind = "object" -> Bound(<<>>)
    [] OTHER -> Thrown

RECURSIVE BindAll(_)
\* the arguments of stmt.run bound left to right
BindAll(args) ==
  IF Len(args) = 0 THEN Bound(<<>>)
  ELSE LET h == BindArg(args[1])
           t == BindAll(Tail(args))
       IN IF h.ok /\ t.ok THEN Bound(h.vals \o t.vals) ELSE Thrown

\* stmt.run's binding: the eight SQL values, or a thrown TypeError or
\* RangeError (too few or too many values)
Bind(args) ==
  LET b == BindAll(args)
  IN IF b.ok /\ Len(b.vals) = ParamCount THEN b ELSE Thrown

\* TEXT column affinity
TextAffinity(x) ==
  CASE x.type = "real" -> Text(IntText(x.v) \o <<".", "0">>)
    [] x.type = "integer" -> Text(IntText(x.v))
    [] OTHER -> x

\* INTEGER column affinity: a whole REAL becomes an INTEGER, a TEXT that is
\* no numeral stays TEXT
IntegerAffinity(x) ==
  CASE x.type = "real" -> Integer(x.v)
    [] OTHER -> x

(* ------------------------------ the table ----------------------------- *)

\* new Date().toISOString() at clock reading t: a fixed-width text whose
\* byte order is the order of the instants
IsoWidth == 3

RECURSIVE Pow10(_)
Pow10(k) == IF k = 0 THEN 1 ELSE 10 * Pow10(k - 1)

ToISOString(t) ==
  [i \in 1..IsoWidth |-> DigitChars[((t \div Pow10(IsoWidth - i)) % 10) + 1]]

CharCode(c) == CHOOSE k \in 1..Len(DigitChars) : DigitChars[k] = c

RECURSIVE TextLess(_, _)
\* BINARY collation of two texts: s sorts strictly before t
TextLess(s, t) ==
  IF Len(t) = 0 THEN FALSE
  ELSE IF Len(s) = 0 THEN TRUE
  ELSE IF s[1] # t[1] THEN CharCode(s[1]) < CharCode(t[1])
  ELSE TextLess(Tail(s), Tail(t))

\* the row INSERT builds from the bound values, after column affinity
RowOf(id, vals) ==
  [id |-> id,
   originalCode |-> TextAffinity(vals[1]),
   improvedCode |-> TextAffinity(vals[2]),
   timestamp |-> TextAffinity(vals[3]),
   language |-> TextAffinity(vals[4]),
   timeComplexity |-> TextAffinity(vals[5]),
   spaceComplexity |-> TextAffinity(vals[6]),
   cyclomaticComplexity |-> IntegerAffinity(vals[7]),
   hash |-> TextAffinity(vals[8])]

\* every column is NOT NULL
NotNullOk(row) ==
  /\ row.originalCode.type # "null"
  /\ row.improvedCode.type # "null"
  /\ row.timestamp.type # "null"
  /\ row.language.type # "null"
  /\ row.timeComplexity.type # "null"
  /\ row.spaceComplexity.type # "null"
  /\ row.cyclomaticComplexity.type # "null"
  /\ row.hash.type # "null"

\* the table without its UNIQUE constraint
M_UniqueOkOff(table, row) == TRUE

\* hash TEXT UNIQUE
UniqueOk(table, row) == \A i \in 1..Len(table) : table[i].hash # row.hash

\* the largest rowid in the table, 0 when it is empty
MaxId(table) ==
  LET ids == {table[i].id : i \in 1..Len(table)}
  IN IF ids = {} THEN 0 ELSE CHOOSE m \in ids : \A k \in ids : k <= m

\* a rowid that does not step past the largest one drawn
M_NewRowidNoStep(table, sequence) ==
  IF MaxId(table) > sequence THEN MaxId(table) ELSE sequence

\* INTEGER PRIMARY KEY AUTOINCREMENT: one more than the largest rowid the
\* table ever held (sqlite_sequence), and than every rowid it holds
NewRowid(table, sequence) ==
  (IF MaxId(table) > sequence THEN MaxId(table) ELSE sequence) + 1

\* INSERT OR REPLACE: the row that holds the hash is deleted and the new row
\* inserted in its stead
M_InsertOrReplace(table, sequence, vals, keepRowid) ==
  LET row == RowOf(NewRowid(table, sequence), vals)
      kept == SelectSeq(table, LAMBDA r : r.hash # row.hash)
  IN IF NotNullOk(row)
     THEN [db |-> Append(kept, row), seq |-> row.id, changes |-> 1]
     ELSE [db |-> table, seq |-> sequence, changes |-> 0]

\* INSERT OR IGNORE of the bound values: the table, sqlite_sequence and the
\* number of changes afterwards.  A row that breaks a constraint is skipped;
\* whether the rowid drawn for it is then consumed is the engine's choice
\* (keepRowid).
InsertOrIgnore(table, sequence, vals, keepRowid) ==
  LET row == RowOf(NewRowid(table, sequence), vals)
  IN IF NotNullOk(row) /\ UniqueOk(table, row)
     THEN [db |-> Append(table, row), seq |-> row.id, changes |-> 1]
     ELSE [db |-> table,
           seq |-> IF keepRowid THEN row.id ELSE sequence,
           changes |-> 0]

(* --------------------------- POST /api/history ------------------------ *)

\* the test with && in place of ||
M_MissingFieldsBoth(body) == ~Truthy(body.originalCode) /\ ~Truthy(body.improvedCode)

\* !originalCode || !improvedCode
MissingFields(body) == ~Truthy(body.originalCode) \/ ~Truthy(body.improvedCode)

\* the hash taken of originalCode alone
M_HashInputOriginalOnly(body) == Plus(body.originalCode, Str(<<>>))

\* the two codes hashed with a separator between them
M_HashInputSeparated(body) ==
  Plus(Plus(body.originalCode, Str(<<"|">>)), body.improvedCode)

\* originalCode + improvedCode, the argument of update()
HashInput(body) == Plus(body.originalCode, body.improvedCode)

\* a field of a request body, undefined when the body does not carry it
Field(body, k) == IF k \in DOMAIN body THEN body[k] ELSE Missing

\* arguments that take timestamp and hash from the body when it carries them
M_RunArgsFromClient(body, t, hash) ==
  <<body.originalCode,
    body.improvedCode,
    OrElse(Field(body, "timestamp"), Str(ToISOString(t))),
    OrElse(body.language, Str(<<"u", "n", "k", "n", "o", "w", "n">>)),
    OrElse(OptField(body.complexity, "time"), Str(<<"u", "n", "k", "n", "o", "w", "n">>)),
    OrElse(OptField(body.complexity, "space"), Str(<<"u", "n", "k", "n", "o", "w", "n">>)),
    OrElse(OptField(body.complexity, "cyclomatic"), Num(0)),
    OrElse(Field(body, "hash"), Str(hash))>>

\* the eight arguments of stmt.run
RunArgs(body, t, hash) ==
  <<body.originalCode,
    body.improvedCode,
    Str(ToISOString(t)),
    OrElse(body.language, Str(<<"u", "n", "k", "n", "o", "w", "n">>)),
    OrElse(OptField(body.complexity, "time"), Str(<<"u", "n", "k", "n", "o", "w", "n">>)),
    OrElse(OptField(body.complexity, "space"), Str(<<"u", "n", "k", "n", "o", "w", "n">>)),
    OrElse(OptField(body.complexity, "cyclomatic"), Num(0)),
    Str(hash)>>

\* a 500 answer that passes the error on to the caller
M_SaveFailedLeaky(err) == [status |-> 500, error |-> err]

BadRequest == [status |-> 400, error |-> "Missing required fields"]
SaveFailed(err) == [status |-> 500, error |-> "Failed to save history"]
\* an answer that reports every statement run as an insertion
M_SavedAlways(changes) == [status |-> 200, success |-> TRUE, inserted |-> TRUE]
Saved(changes) == [status |-> 200, success |-> TRUE, inserted |-> changes > 0]

SaveLogLine(err) == [msg |-> "Error saving history:", error |-> err]

\* the catch block of the POST handler
SaveCatch(table, sequence, err) ==
  [db |-> table, seq |-> sequence, res |-> SaveFailed(err),
   log |-> <<SaveLogLine(err)>>, fault |-> err = "SqliteError"]

\* the POST handler on one request body, run against the table at clock
\* reading t; fault says whether the storage layer fails under prepare/run
PostHistory(body, table, sequence, t, fault, keepRowid) ==
  IF MissingFields(body)
  THEN [db |-> table, seq |-> sequence, res |-> BadRequest, log |-> <<>>,
        fault |-> FALSE]
  ELSE IF HashInput(body).kind # "string"
  THEN SaveCatch(table, sequence, "TypeError")
  ELSE IF fault
  THEN SaveCatch(table, sequence, "SqliteError")
  ELSE LET b == Bind(RunArgs(body, t, Sha256Hex(HashInput(body).s)))
       IN IF ~b.ok
          THEN SaveCatch(table, sequence, "BindError")
          ELSE LET info == InsertOrIgnore(table, sequence, b.vals, keepRowid)
               IN [db |-> info.db, seq |-> info.seq,
                   res |-> Saved(info.changes), log |-> <<>>, fault |-> FALSE]

(* --------------------------- GET /api/history ------------------------- *)

\* ORDER BY timestamp DESC: row r comes before row q.  Rows with equal
\* timestamps come in an order the engine chooses (tie).
Before(r, q, tie) ==
  \/ TextLess(q.timestamp.v, r.timestamp.v)
  \/ /\ q.timestamp.v = r.timestamp.v
     /\ IF tie = "rowid" THEN r.id < q.id ELSE r.id > q.id

RECURSIVE Merge(_, _, _)
\* two ordered runs of rows merged into one
Merge(xs, ys, tie) ==
  IF Len(xs) = 0 THEN ys
  ELSE IF Len(ys) = 0 THEN xs
  ELSE IF Before(ys[1], xs[1], tie)
       THEN <<ys[1]>> \o Merge(xs, Tail(ys), tie)
       ELSE <<xs[1]>> \o Merge(Tail(xs), ys, tie)

RECURSIVE OrderByTimestampDesc(_, _)
\* the rows in ORDER BY order
OrderByTimestampDesc(rows, tie) ==
  IF Len(rows) <= 1 THEN rows
  ELSE LET h == Len(rows) \div 2
       IN Merge(OrderByTimestampDesc(SubSeq(rows, 1, h), tie),
                OrderByTimestampDesc(SubSeq(rows, h + 1, Len(rows)), tie),
                tie)

\* the SELECT without its LIMIT
M_LimitOff(rows, n) == rows

\* LIMIT n
Limit(rows, n) == IF Len(rows) <= n THEN rows ELSE SubSeq(rows, 1, n)

\* LIMIT applied to the table before ORDER BY
M_SelectLimitThenOrder(table, tie) ==
  OrderByTimestampDesc(Limit(table, ListLimit), tie)

\* SELECT * FROM history ORDER BY timestamp DESC LIMIT 100
SelectHistory(table, tie) == Limit(OrderByTimestampDesc(table, tie), ListLimit)

ReadFailed(err) == [status |-> 500, error |-> "Failed to read history"]
ReadLogLine(err) == [msg |-> "Error reading history:", error |-> err]

\* the GET handler
GetHistory(table, fault, tie) ==
  IF fault
  THEN [res |-> ReadFailed("SqliteError"), log |-> <<ReadLogLine("SqliteError")>>,
        fault |-> TRUE]
  ELSE [res |-> [status |-> 200, rows |-> SelectHistory(table, tie)], log |-> <<>>,
        fault |-> FALSE]

(* ------------------------------ requests ------------------------------ *)

TextA == <<"a">>
TextAA == <<"a", "a">>

NoMeta == [language |-> Missing, complexity |-> Missing]
FullMeta ==
  [language |-> Str(<<"j", "s">>),
   complexity |-> Obj([k \in {"time", "space", "cyclomatic"} |->
                         CASE k = "time" -> Str(<<"O", "(", "n", ")">>)
                           [] k = "space" -> Str(<<"O", "(", "1", ")">>)
                           [] OTHER -> Num(3)])]

Body(o, i, m) ==
  [originalCode |-> o, improvedCode |-> i,
   language |-> m.language, complexity |-> m.complexity]

\* bodies whose two codes are non-empty strings: one pair sent with and
\* without language and complexity, and two pairs that concatenate alike
WellFormed ==
  {Body(Str(TextA), Str(TextA), NoMeta),
   Body(Str(TextA), Str(TextA), FullMeta),
   Body(Str(TextA), Str(TextAA), NoMeta),
   Body(Str(TextAA), Str(TextA), NoMeta)}

\* bodies in which a code is missing or empty
Incomplete ==
  {Body(Missing, Str(TextA), NoMeta),
   Body(Str(TextA), Missing, NoMeta),
   Body(Str(<<>>), Str(TextA), NoMeta),
   Body(Str(TextA), Str(<<>>), NoMeta)}

\* bodies in which a code is a JSON value that is not a string
NonString ==
  {Body(Num(5), Str(TextA), NoMeta),
   Body(Bool(TRUE), Str(TextA), NoMeta),
   Body(Arr(<<>>), Arr(<<Str(TextA), Str(TextA)>>), NoMeta),
   Body(EmptyObj, Str(TextA), NoMeta),
   Body(Num(5), Num(5), NoMeta)}

Malformed == Incomplete \cup NonString

Bodies == WellFormed \cup Malformed

NoBody == Body(Missing, Missing, NoMeta)

\* the hash the handler computes for a body, <<>> when it computes none
HashOf(body) ==
  IF MissingFields(body) \/ HashInput(body).kind # "string" THEN <<>>
  ELSE Sha256Hex(HashInput(body).s)

\* the rows of a table that hold the hash the handler computes for a body
SameHash(table, body) ==
  {i \in 1..Len(table) : table[i].hash = Text(HashOf(body))}

(* ------------------------------- state -------------------------------- *)

VARIABLES
  db,        \* the rows of table history, in the order they were inserted
  seq,       \* sqlite_sequence: the largest rowid the table ever drew
  now,       \* the reading of the server's clock
  calls,     \* the requests sent so far; a request's id is its index
  inflight,  \* ids of the requests sent and not yet handled
  resp,      \* the response to each handled request, by request id
  log,       \* lines written by console.error
  last,      \* the request handled most recently, and whether storage failed
  before     \* table, sqlite_sequence and log as that handler found them

\* the state of the history server
store == <<db, seq, now, calls, inflight, resp, log, last, before>>

VARIABLES
  apiKey,         \* process.env.GEMINI_API_KEY as the assistant library read it
  frames,         \* the invocations of reviewCode and chatWithCode, in call order
  chatMessages,   \* the turns the chat tab shows
  chatInput,      \* the text in the chat box
  isChatLoading,  \* a chat question is awaiting its answer
  model           \* the model chosen in the settings

\* the state of the assistant: its library and the chat tab
assist == <<apiKey, frames, chatMessages, chatInput, isChatLoading, model>>

VARIABLES
  page,   \* the App component: its useState values and recognitionRef
  tasks   \* the invocations of handleReview and loadHistory, in call order

\* the state of the page beside the chat tab
ui == <<page, tasks>>

vars == <<db, seq, now, calls, inflight, resp, log, last, before,
          apiKey, frames, chatMessages, chatInput, isChatLoading, model,
          page, tasks>>

\* SAMPLE_CODE, of which the first line is kept
SAMPLE_CODE == "function calculateTotal(items) {"

\* the content of utils.js, of which the first line is kept
UtilsCode == "// Utility functions"

\* the App component as it mounts, once the landing page is left
InitialPage ==
  [files |-> <<[name |-> "main.js", content |-> SAMPLE_CODE],
               [name |-> "utils.js", content |-> UtilsCode]>>,
   activeFileIndex |-> 0,
   isReviewing |-> FALSE,
   result |-> JsNull,
   error |-> JsNull,
   activeTab |-> "issues",
   showHistory |-> FALSE,
   historyData |-> Arr(<<>>),
   isLoadingHistory |-> FALSE,
   isListening |-> FALSE,
   recognition |-> JsNull]

\* nothing was clicked yet
PageOff == page = InitialPage /\ tasks = <<>>

\* the page is not open: no credential is read, nothing is typed or asked
AssistOff ==
  /\ apiKey = Missing
  /\ frames = <<>>
  /\ chatMessages = <<>>
  /\ chatInput = ""
  /\ isChatLoading = FALSE
  /\ model = "gemini-3-flash-preview"

Snapshot == [db |-> db, seq |-> seq, log |-> log]

\* a request as sent: with it, the requests in flight at that moment and
\* whether the table then held its hash
Call(op, body) ==
  [op |-> op, body |-> body, peers |-> inflight,
   stored |-> SameHash(db, body) # {}]

Init ==
  /\ db = <<>>
  /\ seq = 0
  /\ now = 0
  /\ calls = <<>>
  /\ inflight = {}
  /\ resp = <<>>
  /\ log = <<>>
  /\ last = [id |-> 0, fault |-> FALSE]
  /\ before = [db |-> <<>>, seq |-> 0, log |-> <<>>]
  /\ AssistOff
  /\ PageOff

\* the clock moves on between two handler runs
Tick(limit) ==
  /\ now < limit
  /\ now' = now + 1
  /\ UNCHANGED <<db, seq, calls, inflight, resp, log, last, before>>
  /\ UNCHANGED <<assist, ui>>

\* a client sends POST /api/history; window bounds the requests in flight
SendRecord(bodies, window) ==
  /\ Len(calls) < MaxCalls
  /\ Cardinality(inflight) < window
  /\ \E b \in bodies : calls' = Append(calls, Call("record", b))
  /\ inflight' = inflight \cup {Len(calls) + 1}
  /\ UNCHANGED <<db, seq, now, resp, log, last, before>>
  /\ UNCHANGED <<assist, ui>>

\* a client sends GET /api/history
SendList(window) ==
  /\ Len(calls) < MaxCalls
  /\ Cardinality(inflight) < window
  /\ calls' = Append(calls, Call("list", NoBody))
  /\ inflight' = inflight \cup {Len(calls) + 1}
  /\ UNCHANGED <<db, seq, now, resp, log, last, before>>
  /\ UNCHANGED <<assist, ui>>

\* the server runs the POST handler on one request, start to end; faults are
\* the ways the storage layer may behave under it
HandleRecord(c, faults) ==
  /\ c \in inflight
  /\ calls[c].op = "record"
  /\ \E fault \in faults, keepRowid \in BOOLEAN :
       LET out == PostHistory(calls[c].body, db, seq, now, fault, keepRowid)
       IN /\ db' = out.db
          /\ seq' = out.seq
          /\ resp' = resp @@ (c :> out.res)
          /\ log' = log \o out.log
          /\ last' = [id |-> c, fault |-> out.fault]
  /\ inflight' = inflight \ {c}
  /\ before' = Snapshot
  /\ UNCHANGED <<now, calls>>
  /\ UNCHANGED <<assist, ui>>

\* the server runs the GET handler on one request, start to end
HandleList(c, faults) ==
  /\ c \in inflight
  /\ calls[c].op = "list"
  /\ \E fault \in faults, tie \in {"rowid", "reverse"} :
       LET out == GetHistory(db, fault, tie)
       IN /\ resp' = resp @@ (c :> out.res)
          /\ log' = log \o out.log
          /\ last' = [id |-> c, fault |-> out.fault]
  /\ inflight' = inflight \ {c}
  /\ before' = Snapshot
  /\ UNCHANGED <<db, seq, now, calls>>
  /\ UNCHANGED <<assist, ui>>

Next ==
  \/ Tick(MaxTime)
  \/ SendRecord(Bodies, MaxInFlight)
  \/ SendList(MaxInFlight)
  \/ \E c \in inflight : HandleRecord(c, BOOLEAN)
  \/ \E c \in inflight : HandleList(c, BOOLEAN)

Spec == Init /\ [][Next]_vars

(* ------------------- a store that already holds rows ------------------ *)

\* history.db outlives the server: the table a start finds may hold the rows
\* of earlier runs.  Earlier request i carried a code of its own and was
\* handled at clock reading StampOf(i), two requests to a reading.
EarlierBody(i) == Body(Str(<<"f">> \o NatText(i)), Str(<<"g">>), NoMeta)
StampOf(i) == (i + 1) \div 2

\* the row earlier request i left, the table being empty before request 1
EarlierRow(i) ==
  RowOf(i, Bind(RunArgs(EarlierBody(i), StampOf(i),
                        Sha256Hex(HashInput(EarlierBody(i)).s))).vals)

\* table and sqlite_sequence after the earlier requests 1..n
Earlier(n) == [db |-> [i \in 1..n |-> EarlierRow(i)], seq |-> n]

\* the server starts on a table one row short of the page size, or filled to
\* it; its clients send one request at a time and its storage does not fail
InitFull ==
  /\ \E n \in {ListLimit - 1, ListLimit} :
       /\ db = Earlier(n).db
       /\ seq = Earlier(n).seq
       /\ before = [db |-> Earlier(n).db, seq |-> Earlier(n).seq, log |-> <<>>]
  /\ now = StampOf(ListLimit)
  /\ calls = <<>>
  /\ inflight = {}
  /\ resp = <<>>
  /\ log = <<>>
  /\ last = [id |-> 0, fault |-> FALSE]
  /\ AssistOff
  /\ PageOff

\* two pairs no earlier request carried
Fresh ==
  {Body(Str(TextA), Str(TextA), NoMeta), Body(Str(TextA), Str(TextAA), NoMeta)}

NextFull ==
  \/ Tick(StampOf(ListLimit) + MaxTime)
  \/ SendRecord(Fresh, 1)
  \/ SendList(1)
  \/ \E c \in inflight : HandleRecord(c, {FALSE})
  \/ \E c \in inflight : HandleList(c, {FALSE})

SpecFull == InitFull /\ [][NextFull]_vars

(* ------------- requests that carry fields of the client's own --------- *)

\* a body with a timestamp, an id and a hash beside the fields the handler
\* destructures
WithExtras(body, x) ==
  [originalCode |-> body.originalCode, improvedCode |-> body.improvedCode,
   language |-> body.language, complexity |-> body.complexity,
   timestamp |-> x.timestamp, id |-> x.id, hash |-> x.hash]

NoExtras == [timestamp |-> Missing, id |-> Missing, hash |-> Missing]

\* an instant no clock reading of a behaviour has, a rowid no behaviour
\* draws, and the hash of another pair
Forged ==
  [timestamp |-> Str(ToISOString(7)), id |-> Num(9),
   hash |-> Str(Sha256Hex(TextA \o TextAA))]

\* a complexity object that carries a cyclomatic value only
OnlyCyclomatic(c) ==
  [language |-> Missing, complexity |-> Obj([k \in {"cyclomatic"} |-> c])]

\* complexity objects without time and space: a cyclomatic value of 0, a
\* negative one and one that is no number
Metas ==
  {NoMeta, FullMeta, OnlyCyclomatic(Num(0)), OnlyCyclomatic(Num(-1)),
   OnlyCyclomatic(Str(<<"x">>))}

\* two pairs, each sent with and without fields of the client's own, and one
\* of them sent with each complexity object
ClientBodies ==
  {WithExtras(Body(Str(TextA), Str(TextA), m), NoExtras) : m \in Metas}
  \cup {WithExtras(Body(Str(TextA), Str(TextA), NoMeta), Forged),
        WithExtras(Body(Str(TextA), Str(TextAA), NoMeta), NoExtras),
        WithExtras(Body(Str(TextA), Str(TextAA), NoMeta), Forged)}

\* clients send one request at a time, and the storage does not fail
NextClient ==
  \/ Tick(MaxTime)
  \/ SendRecord(ClientBodies, 1)
  \/ \E c \in inflight : HandleRecord(c, {FALSE})

SpecClient == Init /\ [][NextClient]_vars

(* ------------------------ the assistant library ----------------------- *)

\* Texts of the assistant are strings; SubSeq, Len and \o read them as
\* sequences of characters.

\* s.includes(needle)
Includes(s, needle) ==
  \E i \in 1..(Len(s) - Len(needle) + 1) :
    SubSeq(s, i, i + Len(needle) - 1) = needle

\* the character of s at place i, "" past its end
CharAt(s, i) == IF i >= 1 /\ i <= Len(s) THEN SubSeq(s, i, i) ELSE ""

\* white space; the blank is the only one the texts of the chat box hold
IsSpace(c) == c = " "

RECURSIVE TrimStart(_)
TrimStart(s) ==
  IF Len(s) > 0 /\ IsSpace(CharAt(s, 1)) THEN TrimStart(SubSeq(s, 2, Len(s))) ELSE s

RECURSIVE TrimEnd(_)
TrimEnd(s) ==
  IF Len(s) > 0 /\ IsSpace(CharAt(s, Len(s)))
  THEN TrimEnd(SubSeq(s, 1, Len(s) - 1)) ELSE s

\* s.trim()
Trim(s) == TrimEnd(TrimStart(s))

\* a parameter with a default value
Default(v, d) == IF v = Missing THEN Str(d) ELSE v

(* JSON.parse, on texts without white space between tokens, escapes in
   strings, fractions or exponents *)

Quote == "\""

IsDigit(c) == \E k \in 1..10 : DigitChars[k] = c
DigitValue(c) == (CHOOSE k \in 1..10 : DigitChars[k] = c) - 1

NoParse == [ok |-> FALSE, val |-> Missing, next |-> 0]
ParsedTo(v, n) == [ok |-> TRUE, val |-> v, next |-> n]

\* a string literal that opens at place i
ParseString(s, i) ==
  LET ends == {j \in (i + 1)..Len(s) : CharAt(s, j) = Quote}
  IN IF CharAt(s, i) # Quote \/ ends = {} THEN NoParse
     ELSE LET j == CHOOSE e \in ends : \A k \in ends : e <= k
          IN ParsedTo(Str(SubSeq(s, i + 1, j - 1)), j + 1)

RECURSIVE DigitsEnd(_, _)
\* the first place from i on that holds no digit
DigitsEnd(s, i) == IF IsDigit(CharAt(s, i)) THEN DigitsEnd(s, i + 1) ELSE i

RECURSIVE NatValue(_, _, _)
\* the number the digits at places a..b spell
NatValue(s, a, b) ==
  IF a > b THEN 0 ELSE 10 * NatValue(s, a, b - 1) + DigitValue(CharAt(s, b))

\* an integer literal that starts at place i
ParseNumber(s, i) ==
  LET a == IF CharAt(s, i) = "-" THEN i + 1 ELSE i
      b == DigitsEnd(s, a)
  IN IF b = a THEN NoParse
     ELSE ParsedTo(Num(IF a > i THEN 0 - NatValue(s, a, b - 1)
                       ELSE NatValue(s, a, b - 1)), b)

\* the literal word at place i
ParseWord(s, i, word, v) ==
  IF i + Len(word) - 1 <= Len(s) /\ SubSeq(s, i, i + Len(word) - 1) = word
  THEN ParsedTo(v, i + Len(word)) ELSE NoParse

\* the object of a list of members; of two members with one key the later
\* one counts
ObjOf(members) ==
  LET places == DOMAIN members
      lastOf(k) == CHOOSE j \in places :
                     /\ members[j][1] = k
                     /\ \A l \in places : members[l][1] = k => l <= j
  IN Obj([k \in {members[j][1] : j \in places} |-> members[lastOf(k)][2]])

RECURSIVE ParseValue(_, _)
RECURSIVE ParseMembers(_, _, _)
RECURSIVE ParseElements(_, _, _)

\* a value that starts at place i
ParseValue(s, i) ==
  LET c == CharAt(s, i)
  IN CASE c = Quote -> ParseString(s, i)
       [] c = "{" -> IF CharAt(s, i + 1) = "}" THEN ParsedTo(ObjOf(<<>>), i + 2)
                     ELSE ParseMembers(s, i + 1, <<>>)
       [] c = "[" -> IF CharAt(s, i + 1) = "]" THEN ParsedTo(Arr(<<>>), i + 2)
                     ELSE ParseElements(s, i + 1, <<>>)
       [] c = "t" -> ParseWord(s, i, "true", Bool(TRUE))
       [] c = "f" -> ParseWord(s, i, "false", Bool(FALSE))
       [] c = "n" -> ParseWord(s, i, "null", JsNull)
       [] OTHER -> ParseNumber(s, i)

\* the members of an object from place i on, acc being those read so far
ParseMembers(s, i, acc) ==
  LET k == ParseString(s, i)
  IN IF ~k.ok \/ CharAt(s, k.next) # ":" THEN NoParse
     ELSE LET v == ParseValue(s, k.next + 1)
          IN IF ~v.ok THEN NoParse
             ELSE CASE CharAt(s, v.next) = "," ->
                         ParseMembers(s, v.next + 1, Append(acc, <<k.val.s, v.val>>))
                    [] CharAt(s, v.next) = "}" ->
                         ParsedTo(ObjOf(Append(acc, <<k.val.s, v.val>>)), v.next + 1)
                    [] OTHER -> NoParse

\* the elements of an array from place i on
ParseElements(s, i, acc) ==
  LET v == ParseValue(s, i)
  IN IF ~v.ok THEN NoParse
     ELSE CASE CharAt(s, v.next) = "," ->
                 ParseElements(s, v.next + 1, Append(acc, v.val))
            [] CharAt(s, v.next) = "]" ->
                 ParsedTo(Arr(Append(acc, v.val)), v.next + 1)
            [] OTHER -> NoParse

\* JSON.parse(text): the value, or a thrown SyntaxError
JsonParse(text) ==
  LET r == ParseValue(text, 1)
  IN IF r.ok /\ r.next = Len(text) + 1 THEN [ok |-> TRUE, val |-> r.val]
     ELSE [ok |-> FALSE, val |-> Missing]

(* payloads of the service *)

\* a payload with every field the schema requires
FullPayload ==
  "{\"detectedLanguage\":\"python\",\"issues\":[],\"optimizedCode\":\"print(2)\","
  \o "\"explanation\":\"e\",\"documentation\":\"d\",\"overallScore\":7,"
  \o "\"detailedScores\":{\"quality\":7,\"readability\":8,\"optimization\":6,"
  \o "\"security\":9,\"technicalDebt\":5,\"styleConsistency\":7},"
  \o "\"complexity\":{\"time\":\"O(n)\",\"space\":\"O(1)\",\"cyclomatic\":2}}"

\* the same payload without its complexity field
PartialPayload ==
  "{\"detectedLanguage\":\"python\",\"issues\":[],\"optimizedCode\":\"print(2)\","
  \o "\"explanation\":\"e\",\"documentation\":\"d\",\"overallScore\":7,"
  \o "\"detailedScores\":{\"quality\":7,\"readability\":8,\"optimization\":6,"
  \o "\"security\":9,\"technicalDebt\":5,\"styleConsistency\":7}}"

\* a payload cut short, and one that is prose
CutPayload == SubSeq(FullPayload, 1, Len(FullPayload) - 1)
ProsePayload == "Sorry, I cannot review this code."

\* a payload that is valid JSON and no object
NullPayload == "null"

\* JSON.parse of the payloads above, worked out once
Parses ==
  [t \in {FullPayload, PartialPayload, CutPayload, ProsePayload, NullPayload}
     |-> JsonParse(t)]

\* JSON.parse(text)
JSONparse(text) == IF text \in DOMAIN Parses THEN Parses[text] ELSE JsonParse(text)

(* reviewCode and chatWithCode *)

\* a table without its entry for github-copilot
M_mapModelNoGithub(m) ==
  CASE m = "claude-4" -> "gemini-3-flash-preview"
    [] m = "gpt-5" -> "gemini-3.1-pro-preview"
    [] m = "microsoft-copilot" -> "gemini-3.1-pro-preview"
    [] OTHER -> m

mapModel(m) ==
  CASE m = "claude-4" -> "gemini-3-flash-preview"
    [] m = "gpt-5" -> "gemini-3.1-pro-preview"
    [] m = "microsoft-copilot" -> "gemini-3.1-pro-preview"
    [] m = "github-copilot" -> "gemini-3.1-pro-preview"
    [] OTHER -> m

\* how an invocation ends: with a value, or with a thrown error
Returns(v) == [kind |-> "returned", value |-> v]
Throws(err) == [kind |-> "thrown", error |-> err]
\* new Error(message)
Error(message) == [message |-> Str(message)]
NoOutcome == [kind |-> "none"]

\* what the service does with a request: it answers with a text (or with
\* none), or the call fails with an error
Answer(text) == [kind |-> "answer", text |-> text]
Failure(err) == [kind |-> "failure", error |-> err]
NoReply == [kind |-> "none"]

\* the frame of an invocation: what it was called with, where it stands,
\* the clients it created, the requests it sent, the lines it logged, the
\* reply it resumed with and how it ended
Frame(op, by, args, pc, clients, sent, logged, reply, out) ==
  [op |-> op, by |-> by, args |-> args, pc |-> pc, clients |-> clients,
   sent |-> sent, logged |-> logged, reply |-> reply, out |-> out]

\* a credential check that comes after the client and the request
M_NoKeyAfterRequest(op, by, args) ==
  Frame(op, by, args, "settled", 1, <<[call |-> op]>>, <<>>, NoReply,
        Throws(Error("GEMINI_API_KEY is not set")))

\* if (!apiKey) throw new Error("GEMINI_API_KEY is not set")
NoKey(op, by, args) ==
  Frame(op, by, args, "settled", 0, <<>>, <<>>, NoReply,
        Throws(Error("GEMINI_API_KEY is not set")))

isAuto(language) == language = Str("auto")

isConversion(language, targetLanguage) ==
  /\ Truthy(targetLanguage)
  /\ targetLanguage # Str("none")
  /\ targetLanguage # language

\* the language named on the code fences of the prompt
FenceLanguage(language, targetLanguage) ==
  IF Truthy(targetLanguage) /\ targetLanguage # Str("none")
  THEN targetLanguage.s ELSE language.s

\* the fields the response schema requires of the result
RequiredFields ==
  {"detectedLanguage", "issues", "optimizedCode", "explanation",
   "documentation", "overallScore", "detailedScores", "complexity"}

\* the prompt of reviewCode, as the texts that fill its placeholders
ReviewContents(a) ==
  LET conv == isConversion(a.language, a.targetLanguage)
  IN [source |-> IF isAuto(a.language)
                 THEN "First, detect the programming language of the code."
                 ELSE "Source Language: " \o a.language.s,
      conversion |-> IF conv
                     THEN "TARGET LANGUAGE FOR CONVERSION: " \o a.targetLanguage.s
                          \o ". You MUST convert the code to "
                          \o a.targetLanguage.s \o " while optimizing it."
                     ELSE "",
      mode |-> Default(a.mode, "industry").s,
      style |-> Default(a.style, "default").s,
      verbosity |-> Default(a.verbosity, "normal").s,
      tone |-> Default(a.tone, "professional").s,
      errorLog |-> IF Truthy(Default(a.errorLog, "")) THEN a.errorLog.s ELSE "",
      houseStyle |-> IF Truthy(Default(a.houseStyle, "")) THEN a.houseStyle.s ELSE "",
      identify |-> IF isAuto(a.language)
                   THEN "Identify the source programming language." ELSE "",
      fence |-> FenceLanguage(a.language, a.targetLanguage),
      documented |-> IF conv THEN a.targetLanguage.s ELSE "optimized",
      analysed |-> IF conv THEN "converted" ELSE "optimized",
      code |-> a.code.s]

\* the argument of ai.models.generateContent
ReviewRequest(a) ==
  [call |-> "generateContent",
   model |-> mapModel(Default(a.model, "gemini-3-flash-preview").s),
   contents |-> ReviewContents(a),
   responseMimeType |-> "application/json",
   required |-> RequiredFields]

\* reviewCode up to its await: the credential check, the client, the request
ReviewEnter(key, by, a) ==
  IF ~Truthy(key) THEN NoKey("review", by, a)
  ELSE Frame("review", by, a, "awaiting", 1, <<ReviewRequest(a)>>, <<>>,
             NoReply, NoOutcome)

\* what reviewCode's try block comes to once the service has replied: the
\* value it returns or the error it throws, and the line it logs
ReviewTry(reply) ==
  IF reply.kind = "failure"
  THEN [out |-> Throws(reply.error), logged |-> <<>>]
  ELSE IF ~Truthy(reply.text)
  THEN [out |-> Throws(Error("The AI model returned an empty response. Please try again.")),
        logged |-> <<>>]
  ELSE IF JSONparse(reply.text.s).ok
  THEN [out |-> Returns(JSONparse(reply.text.s).val), logged |-> <<>>]
  ELSE [out |-> Throws(Error("Failed to process the AI's response. The generated content was not in the expected format.")),
        logged |-> <<[msg |-> "Failed to parse Gemini response:", arg |-> reply.text]>>]

\* apiError.message?.includes(needle)
MessageIncludes(apiError, needle) ==
  apiError.message.kind = "string" /\ Includes(apiError.message.s, needle)

\* a catch block that looks for "AI" where the code looks for "API key"
M_ReviewCatchLoose(apiError) ==
  IF MessageIncludes(apiError, "AI")
  THEN Error("Invalid API key configuration. Please check your environment variables.")
  ELSE IF MessageIncludes(apiError, "safety")
  THEN Error("The code review was blocked by safety filters. Please ensure your code follows safety guidelines.")
  ELSE IF MessageIncludes(apiError, "quota") \/ MessageIncludes(apiError, "429")
  THEN Error("API quota exceeded or too many requests. Please wait a moment before trying again.")
  ELSE [message |->
          OrElse(apiError.message,
                 Str("An error occurred while communicating with the AI. Please check your connection and try again."))]

\* a catch block that looks for "safety" before it looks for "API key"
M_ReviewCatchSafetyFirst(apiError) ==
  IF MessageIncludes(apiError, "safety")
  THEN Error("The code review was blocked by safety filters. Please ensure your code follows safety guidelines.")
  ELSE IF MessageIncludes(apiError, "API key")
  THEN Error("Invalid API key configuration. Please check your environment variables.")
  ELSE IF MessageIncludes(apiError, "quota") \/ MessageIncludes(apiError, "429")
  THEN Error("API quota exceeded or too many requests. Please wait a moment before trying again.")
  ELSE [message |->
          OrElse(apiError.message,
                 Str("An error occurred while communicating with the AI. Please check your connection and try again."))]

\* the catch block of reviewCode: the error thrown in place of apiError
ReviewCatch(apiError) ==
  IF MessageIncludes(apiError, "API key")
  THEN Error("Invalid API key configuration. Please check your environment variables.")
  ELSE IF MessageIncludes(apiError, "safety")
  THEN Error("The code review was blocked by safety filters. Please ensure your code follows safety guidelines.")
  ELSE IF MessageIncludes(apiError, "quota") \/ MessageIncludes(apiError, "429")
  THEN Error("API quota exceeded or too many requests. Please wait a moment before trying again.")
  ELSE [message |->
          OrElse(apiError.message,
                 Str("An error occurred while communicating with the AI. Please check your connection and try again."))]

\* a reviewCode that sends its request once more when the first one fails
M_ReviewResumeRetry(f, reply) ==
  IF reply.kind = "failure" /\ Len(f.sent) < 2
  THEN [f EXCEPT !.sent = Append(f.sent, ReviewRequest(f.args)), !.reply = reply]
  ELSE LET try == ReviewTry(reply)
       IN IF try.out.kind = "returned"
          THEN [f EXCEPT !.pc = "settled", !.reply = reply, !.out = try.out]
          ELSE [f EXCEPT !.pc = "settled", !.reply = reply,
                         !.logged = try.logged \o <<[msg |-> "Gemini API Error:", arg |-> try.out.error]>>,
                         !.out = Throws(ReviewCatch(try.out.error))]

\* reviewCode from its await on
ReviewResume(f, reply) ==
  LET try == ReviewTry(reply)
  IN IF try.out.kind = "returned"
     THEN [f EXCEPT !.pc = "settled", !.reply = reply, !.out = try.out]
     ELSE [f EXCEPT !.pc = "settled", !.reply = reply,
                    !.logged = try.logged \o <<[msg |-> "Gemini API Error:", arg |-> try.out.error]>>,
                    !.out = Throws(ReviewCatch(try.out.error))]

\* the system instruction of the chat, as the texts that fill its placeholders
ChatInstruction(a) ==
  [errorLog |-> IF Truthy(Default(a.errorLog, "")) THEN a.errorLog.s ELSE "",
   code |-> a.code.s]

\* a chat created with all turns of the history but the first
M_ChatRequestDropsFirst(a) ==
  [call |-> "sendMessage",
   model |-> mapModel(Default(a.model, "gemini-3-flash-preview").s),
   systemInstruction |-> ChatInstruction(a),
   history |-> IF a.history = Missing \/ Len(a.history.xs) = 0 THEN <<>>
               ELSE Tail(a.history.xs),
   message |-> a.question.s]

\* ai.chats.create and chat.sendMessage: the one request they make, which
\* carries the system instruction, the history and the new message
ChatRequest(a) ==
  [call |-> "sendMessage",
   model |-> mapModel(Default(a.model, "gemini-3-flash-preview").s),
   systemInstruction |-> ChatInstruction(a),
   history |-> IF a.history = Missing THEN <<>> ELSE a.history.xs,
   message |-> a.question.s]

\* chatWithCode up to its await
ChatEnter(key, by, a) ==
  IF ~Truthy(key) THEN NoKey("ask", by, a)
  ELSE Frame("ask", by, a, "awaiting", 1, <<ChatRequest(a)>>, <<>>,
             NoReply, NoOutcome)

\* a chatWithCode that throws on an empty answer
M_ChatResumeThrowsOnEmpty(f, reply) ==
  [f EXCEPT !.pc = "settled", !.reply = reply,
            !.out = IF reply.kind = "failure" THEN Throws(reply.error)
                    ELSE IF ~Truthy(reply.text)
                    THEN Throws(Error("The AI model returned an empty response. Please try again."))
                    ELSE Returns(reply.text)]

\* chatWithCode from its await on
ChatResume(f, reply) ==
  [f EXCEPT !.pc = "settled", !.reply = reply,
            !.out = IF reply.kind = "failure" THEN Throws(reply.error)
                    ELSE Returns(OrElse(reply.text,
                                        Str("I'm sorry, I couldn't generate a response.")))]

(* ------------------------- callers of reviewCode ---------------------- *)

\* the credential: not in the environment, empty, or set
Keys == {Missing, Str(""), Str("k")}

\* the history server is not part of the behaviour
StoreOff ==
  /\ db = <<>>
  /\ seq = 0
  /\ now = 0
  /\ calls = <<>>
  /\ inflight = {}
  /\ resp = <<>>
  /\ log = <<>>
  /\ last = [id |-> 0, fault |-> FALSE]
  /\ before = [db |-> <<>>, seq |-> 0, log |-> <<>>]

PythonCode == "print(1)"
ScriptCode == "alert(1)"

\* the arguments of a reviewCode call; the parameters left out take their
\* defaults
ReviewArgs(code, language, targetLanguage, m) ==
  [code |-> Str(code), language |-> Str(language), mode |-> Missing,
   targetLanguage |-> targetLanguage, style |-> Missing, model |-> m,
   errorLog |-> Missing, houseStyle |-> Missing, verbosity |-> Missing,
   tone |-> Missing]

\* reviews of a Python and of a JavaScript snippet: language named or left
\* to detection, target language absent, empty, "none", that of the code or
\* another one, model absent, aliased, or unknown to the table
Reviews ==
  {ReviewArgs(PythonCode, "auto", Missing, Missing),
   ReviewArgs(PythonCode, "auto", Str("python"), Str("claude-4")),
   ReviewArgs(PythonCode, "python", Str("python"), Str("gpt-5")),
   ReviewArgs(PythonCode, "python", Str("javascript"), Str("github-copilot")),
   ReviewArgs(ScriptCode, "javascript", Str("none"), Str("microsoft-copilot")),
   ReviewArgs(ScriptCode, "auto", Str(""), Str("my-model"))}

\* the texts a generateContent response may carry
ReviewAnswers ==
  {Answer(Missing), Answer(Str("")), Answer(Str(FullPayload)),
   Answer(Str(PartialPayload)), Answer(Str(CutPayload)), Answer(Str(ProsePayload))}

\* the errors a call to the service may fail with
ServiceFailures ==
  {Failure(Error("API key not valid. Please pass a valid API key.")),
   Failure(Error("The response was blocked for safety reasons.")),
   Failure(Error("You exceeded your current quota.")),
   Failure(Error("got status: 429 Too Many Requests")),
   Failure(Error("fetch failed")),
   Failure([message |-> Missing])}

ReviewReplies == ReviewAnswers \cup ServiceFailures

\* the invocations that await the service
Awaiting == {r \in DOMAIN frames : frames[r].pc = "awaiting"}

\* a caller invokes reviewCode
Review(by, argsets) ==
  /\ Len(frames) < MaxCalls
  /\ Cardinality(Awaiting) < MaxInFlight
  /\ \E a \in argsets : frames' = Append(frames, ReviewEnter(apiKey, by, a))
  /\ UNCHANGED <<apiKey, chatMessages, chatInput, isChatLoading, model>>
  /\ UNCHANGED <<store, ui>>

\* the service replies to an awaiting reviewCode, which runs to its end or
\* to its next await
ReviewSettles(r, replies) ==
  /\ r \in Awaiting
  /\ frames[r].op = "review"
  /\ \E reply \in replies :
       frames' = [frames EXCEPT ![r] = ReviewResume(frames[r], reply)]
  /\ UNCHANGED <<apiKey, chatMessages, chatInput, isChatLoading, model>>
  /\ UNCHANGED <<store, ui>>

InitReview ==
  /\ StoreOff
  /\ apiKey \in Keys
  /\ frames = <<>>
  /\ chatMessages = <<>>
  /\ chatInput = ""
  /\ isChatLoading = FALSE
  /\ model = "gemini-3-flash-preview"
  /\ PageOff

NextReview ==
  \/ Review("caller", Reviews)
  \/ \E r \in DOMAIN frames : ReviewSettles(r, ReviewReplies)

SpecReview == InitReview /\ [][NextReview]_vars

\* failures whose messages hold none, one or several of the substrings the
\* catch block looks for, in either case of letters, or no text at all
MixedFailures ==
  {Failure(Error("API key not valid.")),
   Failure(Error("API key blocked for safety: quota exceeded (429)")),
   Failure(Error("quota check failed: API key unsafe")),
   Failure(Error("blocked for safety, quota exceeded")),
   Failure(Error("429: blocked for safety")),
   Failure(Error("quota exceeded, status 429")),
   Failure(Error("status 429")),
   Failure(Error("Safety check: API Key over Quota")),
   Failure(Error("fetch failed")),
   Failure(Error("")),
   Failure([message |-> Missing])}

\* reviews whose requests the service fails
NextCatch ==
  \/ Review("caller", {ReviewArgs(PythonCode, "python", Missing, Missing)})
  \/ \E r \in DOMAIN frames : ReviewSettles(r, MixedFailures)

SpecCatch == InitReview /\ [][NextCatch]_vars

(* ------------------------------ the chat tab -------------------------- *)

\* what the user may have in the chat box
ChatTexts == {"", " ", "why?", " how? "}

\* the models the user picks for the chat
ChatModels == {"gemini-3-flash-preview", "claude-4", "gpt-5"}

\* the replies of the service to a chat message
ChatReplies ==
  {Answer(Str("It prints 1.")), Answer(Str("No.")), Answer(Str("")),
   Answer(Missing), Failure(Error("fetch failed"))}

\* onChange of the chat box
SetChatInput(texts) ==
  /\ \E t \in texts \ {chatInput} : chatInput' = t
  /\ UNCHANGED <<apiKey, frames, chatMessages, isChatLoading, model>>
  /\ UNCHANGED <<store, ui>>

\* onChange of the model selector
SetModel(models) ==
  /\ \E m \in models \ {model} : model' = m
  /\ UNCHANGED <<apiKey, frames, chatMessages, chatInput, isChatLoading>>
  /\ UNCHANGED <<store, ui>>

\* chatMessages.map(m => ({ role: m.role, parts: [{ text: m.text }] }))
HistoryOf(messages) ==
  [i \in 1..Len(messages) |->
     [role |-> messages[i].role, parts |-> <<[text |-> messages[i].text]>>]]

\* the model turn handleSendMessage appends once chatWithCode has settled
ModelTurn(out) ==
  [role |-> "model",
   text |-> IF out.kind = "returned" THEN out.value.s
            ELSE "Error: Failed to get response from AI."]

\* the arguments handleSendMessage calls chatWithCode with
AskArgs(code, userMessage, messages, m, errorLog) ==
  [code |-> Str(code), question |-> Str(userMessage),
   history |-> Arr(HistoryOf(messages)), model |-> Str(m), errorLog |-> Str(errorLog)]

\* a handleSendMessage that takes a question while another one is pending
M_HandleSendMessageWhileLoading(code, errorLog) ==
  IF Trim(chatInput) = ""
  THEN UNCHANGED vars
  ELSE LET userMessage == Trim(chatInput)
           f == ChatEnter(apiKey, "handleSendMessage",
                          AskArgs(code, userMessage, chatMessages, model, errorLog))
           shown == Append(chatMessages, [role |-> "user", text |-> userMessage])
       IN /\ Len(frames) < MaxCalls
          /\ frames' = Append(frames, f)
          /\ chatInput' = ""
          /\ IF f.pc = "awaiting"
             THEN chatMessages' = shown /\ isChatLoading' = TRUE
             ELSE chatMessages' = Append(shown, ModelTurn(f.out))
                  /\ isChatLoading' = FALSE
          /\ UNCHANGED <<apiKey, model>>
          /\ UNCHANGED <<store, ui>>

\* handleSendMessage up to its await, the editor holding code and errorLog:
\* it returns at once on a blank box or a pending question; else it shows the
\* question, calls chatWithCode with the turns shown before, and awaits (or,
\* chatWithCode having thrown, shows the error turn)
HandleSendMessage(code, errorLog) ==
  IF Trim(chatInput) = "" \/ isChatLoading
  THEN UNCHANGED vars
  ELSE LET userMessage == Trim(chatInput)
           f == ChatEnter(apiKey, "handleSendMessage",
                          AskArgs(code, userMessage, chatMessages, model, errorLog))
           shown == Append(chatMessages, [role |-> "user", text |-> userMessage])
       IN /\ Len(frames) < MaxCalls
          /\ frames' = Append(frames, f)
          /\ chatInput' = ""
          /\ IF f.pc = "awaiting"
             THEN chatMessages' = shown /\ isChatLoading' = TRUE
             ELSE chatMessages' = Append(shown, ModelTurn(f.out))
                  /\ isChatLoading' = FALSE
          /\ UNCHANGED <<apiKey, model>>
          /\ UNCHANGED <<store, ui>>

\* the service replies to the chat message: chatWithCode and then
\* handleSendMessage run to their ends
ChatSettles(r, replies) ==
  /\ r \in Awaiting
  /\ frames[r].op = "ask"
  /\ \E reply \in replies :
       LET f == ChatResume(frames[r], reply)
       IN /\ frames' = [frames EXCEPT ![r] = f]
          /\ chatMessages' = Append(chatMessages, ModelTurn(f.out))
          /\ isChatLoading' = FALSE
  /\ UNCHANGED <<apiKey, chatInput, model>>
  /\ UNCHANGED <<store, ui>>

NextChat ==
  \/ SetChatInput(ChatTexts)
  \/ SetModel(ChatModels)
  \/ HandleSendMessage(PythonCode, "")
  \/ \E r \in DOMAIN frames : ChatSettles(r, ChatReplies)

SpecChat == InitReview /\ [][NextChat]_vars

(* --------------------- reviews and questions together ----------------- *)

\* the identifiers of ModelType, and one that is none of them
ModelIds ==
  {"gemini-3-flash-preview", "gemini-3.1-pro-preview", "claude-4", "gpt-5",
   "microsoft-copilot", "github-copilot", "my-model"}

\* the page reviews code and asks questions under any model; the service
\* answers or fails
NextAssist ==
  \/ Review("caller", Reviews)
  \/ \E r \in DOMAIN frames :
       ReviewSettles(r, {Answer(Str(FullPayload)), Failure(Error("fetch failed"))})
  \/ SetChatInput({"", "why?"})
  \/ SetModel(ModelIds)
  \/ HandleSendMessage(PythonCode, "")
  \/ \E r \in DOMAIN frames :
       ChatSettles(r, {Answer(Str("No.")), Failure(Error("fetch failed"))})

SpecAssist == InitReview /\ [][NextAssist]_vars

(* ------------------------------- the page ----------------------------- *)

\* files[activeFileIndex]?.content || ""
Code(p) ==
  IF p.activeFileIndex + 1 \in DOMAIN p.files
  THEN p.files[p.activeFileIndex + 1].content ELSE ""

\* the history modal calls historyData.map: on a value that is no array the
\* render throws, and React, having no error boundary, unmounts the App
Unmounted(p) ==
  p.showHistory /\ ~p.isLoadingHistory /\ p.historyData.kind # "array"

\* the state after a batch of setState calls: none on an unmounted App
Render(p) == IF Unmounted(page) THEN page ELSE p

\* the controls of the page can be clicked: the App is mounted and the
\* history modal does not cover it
Reachable == ~Unmounted(page) /\ ~page.showHistory

\* an invocation of handleReview or loadHistory: where it stands, the code
\* its closure saw, its reviewCode frame, its request to the history server
\* and the lines it wrote with console.error
Task(op, pc, code, frame, call, logged) ==
  [op |-> op, pc |-> pc, code |-> code, frame |-> frame, call |-> call,
   logged |-> logged]

Unresolved == {t \in DOMAIN tasks : tasks[t].pc # "done"}

\* the arguments handleReview calls reviewCode with: the code and the model
\* of its render, and the settings as the App mounts them
ReviewCall(code, m) ==
  [code |-> Str(code), language |-> Str("auto"), mode |-> Str("industry"),
   targetLanguage |-> Str("none"), style |-> Str("default"), model |-> Str(m),
   errorLog |-> Str(""), houseStyle |-> Str(""), verbosity |-> Str("normal"),
   tone |-> Str("professional")]

\* err instanceof Error ? err.message : "An unexpected error occurred"
ErrorMessage(err) == err.message

\* handleReview once reviewCode has been called, as frame f, the n-th: it
\* awaits, the review marked as running and the error cleared, or, reviewCode
\* having thrown, it has shown the error and cleared the mark
Entered(p, code, f, n) ==
  IF f.pc = "awaiting"
  THEN [page |-> Render([p EXCEPT !.isReviewing = TRUE, !.error = JsNull]),
        frames |-> Append(frames, f),
        tasks |-> Append(tasks, Task("handleReview", "review", code, n, 0, <<>>))]
  ELSE [page |-> Render([p EXCEPT !.isReviewing = FALSE,
                                  !.error = ErrorMessage(f.out.error)]),
        frames |-> Append(frames, f),
        tasks |-> Append(tasks, Task("handleReview", "done", code, n, 0,
                                     <<[msg |-> "", arg |-> f.out.error]>>))]

\* handleReview up to its first await, in the render that saw code and m and
\* on the page p: the page, the frames and the tasks it leaves.  It returns
\* at once on blank code; else it calls reviewCode
HandleReview(p, code, m) ==
  IF Trim(code) = ""
  THEN [page |-> p, frames |-> frames, tasks |-> tasks]
  ELSE Entered(p, code, ReviewEnter(apiKey, "handleReview", ReviewCall(code, m)),
               Len(frames) + 1)

\* the page, the frames and the tasks become those of out
Leaves(out) ==
  /\ page' = out.page
  /\ frames' = out.frames
  /\ tasks' = out.tasks

\* a handler invokes handleReview
StartReview(p, code, m) ==
  /\ Len(tasks) < MaxCalls
  /\ Len(frames) < MaxCalls
  /\ Leaves(HandleReview(p, code, m))

\* onClick of the Refactor & Review button, disabled while isReviewing
ClickReview ==
  /\ Reachable
  /\ ~page.isReviewing
  /\ StartReview(page, Code(page), model)
  /\ UNCHANGED <<apiKey, chatMessages, chatInput, isChatLoading, model>>
  /\ UNCHANGED store

\* onClick of Retry Analysis, which the error panel shows
ClickRetry ==
  /\ Reachable
  /\ Truthy(page.error)
  /\ StartReview(page, Code(page), model)
  /\ UNCHANGED <<apiKey, chatMessages, chatInput, isChatLoading, model>>
  /\ UNCHANGED store

\* onClick of Dismiss
ClickDismiss ==
  /\ Reachable
  /\ Truthy(page.error)
  /\ page' = [page EXCEPT !.error = JsNull]
  /\ UNCHANGED <<assist, store, tasks>>

\* a text of the page as the characters the store keeps
Chars(s) == [i \in 1..Len(s) |-> SubSeq(s, i, i)]

RECURSIVE Wire(_)
\* a value of the page as the server reads it from the JSON text sent: a
\* member that is undefined is left out of the text
Wire(v) ==
  CASE v.kind = "string" -> Str(Chars(v.s))
    [] v.kind = "array" -> Arr([i \in DOMAIN v.xs |-> Wire(v.xs[i])])
    [] v.kind = "object" -> Obj([k \in DOMAIN v.fields |-> Wire(v.fields[k])])
    [] OTHER -> v

\* a body with the two codes in each other's place
M_SaveBodySwapped(code, language, res) ==
  Body(Wire(OptField(res, "optimizedCode")),
       Wire(Str(code)),
       [language |-> Wire(OrElse(OptField(res, "detectedLanguage"), Str(language))),
        complexity |-> Wire(OptField(res, "complexity"))])

\* the body handleReview posts for the result res of reviewing code
SaveBody(code, language, res) ==
  Body(Wire(Str(code)),
       Wire(OptField(res, "optimizedCode")),
       [language |-> Wire(OrElse(OptField(res, "detectedLanguage"), Str(language))),
        complexity |-> Wire(OptField(res, "complexity"))])

\* handleReview from its first await on, reviewCode having ended as frame f
\* shows: what it leaves of the page p and of its task tk, and the body it
\* posts to the history, if any.  A result is shown on the issues tab and
\* posted (reading a field of null throws, which the inner catch logs); of
\* an error the message is shown
Reviewed(p, tk, f) ==
  IF f.out.kind = "returned" /\ f.out.value.kind # "null"
  THEN [page |-> Render([p EXCEPT !.result = f.out.value, !.activeTab = "issues"]),
        task |-> [tk EXCEPT !.pc = "save"],
        posts |-> TRUE,
        body |-> SaveBody(tk.code, "auto", f.out.value)]
  ELSE IF f.out.kind = "returned"
  THEN [page |-> Render([p EXCEPT !.result = f.out.value, !.activeTab = "issues",
                                  !.isReviewing = FALSE]),
        task |-> [tk EXCEPT !.pc = "done",
                            !.logged = <<[msg |-> "Failed to save history:",
                                          arg |-> Error("TypeError")]>>],
        posts |-> FALSE,
        body |-> NoBody]
  ELSE [page |-> Render([p EXCEPT !.error = ErrorMessage(f.out.error),
                                  !.isReviewing = FALSE]),
        task |-> [tk EXCEPT !.pc = "done",
                            !.logged = <<[msg |-> "", arg |-> f.out.error]>>],
        posts |-> FALSE,
        body |-> NoBody]

\* handleReview resumes after reviewCode, which ended as frame f, and runs to
\* its next await or to its end, leaving out
Resumes(t, f, out) ==
  /\ frames' = [frames EXCEPT ![tasks[t].frame] = f]
  /\ page' = out.page
  /\ IF out.posts
     THEN /\ calls' = Append(calls, Call("record", out.body))
          /\ inflight' = inflight \cup {Len(calls) + 1}
          /\ tasks' = [tasks EXCEPT ![t] = [out.task EXCEPT !.call = Len(calls) + 1]]
     ELSE /\ tasks' = [tasks EXCEPT ![t] = out.task]
          /\ UNCHANGED <<calls, inflight>>

\* reviewCode has ended as frame f under the handleReview of task t
ReviewEnds(t, f) == Resumes(t, f, Reviewed(page, tasks[t], f))

\* the service replies to the review a handleReview awaits: reviewCode runs
\* to its end and handleReview to its next await or to its end
ReviewReturns(t, replies) ==
  /\ t \in DOMAIN tasks
  /\ tasks[t].op = "handleReview"
  /\ tasks[t].pc = "review"
  /\ \E reply \in replies : ReviewEnds(t, ReviewResume(frames[tasks[t].frame], reply))
  /\ UNCHANGED <<db, seq, now, resp, log, last, before>>
  /\ UNCHANGED <<apiKey, chatMessages, chatInput, isChatLoading, model>>

\* the history server has answered the POST of a handleReview: fetch
\* resolves whatever the status, and handleReview ends
SaveResolves(t) ==
  /\ t \in DOMAIN tasks
  /\ tasks[t].pc = "save"
  /\ tasks[t].call \in DOMAIN resp
  /\ page' = Render([page EXCEPT !.isReviewing = FALSE])
  /\ tasks' = [tasks EXCEPT ![t].pc = "done"]
  /\ UNCHANGED <<assist, store>>

\* a save whose failure is shown as the error of the review
M_SaveRejectsShowsError(t) ==
  /\ t \in DOMAIN tasks
  /\ tasks[t].pc = "save"
  /\ page' = Render([page EXCEPT !.isReviewing = FALSE,
                                 !.error = Str("Failed to fetch")])
  /\ tasks' = [tasks EXCEPT ![t].pc = "done",
                 ![t].logged = <<[msg |-> "Failed to save history:",
                                  arg |-> Error("Failed to fetch")]>>]
  /\ UNCHANGED <<assist, store>>

\* the network fails under the POST of a handleReview: fetch rejects, the
\* inner catch logs, and handleReview ends
SaveRejects(t) ==
  /\ t \in DOMAIN tasks
  /\ tasks[t].pc = "save"
  /\ page' = Render([page EXCEPT !.isReviewing = FALSE])
  /\ tasks' = [tasks EXCEPT ![t].pc = "done",
                 ![t].logged = <<[msg |-> "Failed to save history:",
                                  arg |-> Error("Failed to fetch")]>>]
  /\ UNCHANGED <<assist, store>>

\* onClick of the History button: the modal opens and loadHistory runs up to
\* its await
ClickHistory ==
  /\ Reachable
  /\ Len(tasks) < MaxCalls
  /\ page' = [page EXCEPT !.showHistory = TRUE, !.isLoadingHistory = TRUE]
  /\ calls' = Append(calls, Call("list", NoBody))
  /\ inflight' = inflight \cup {Len(calls) + 1}
  /\ tasks' = Append(tasks, Task("loadHistory", "fetch", "", 0, Len(calls) + 1, <<>>))
  /\ UNCHANGED <<db, seq, now, resp, log, last, before>>
  /\ UNCHANGED assist

\* onClick of the X of the history modal
CloseHistory ==
  /\ ~Unmounted(page)
  /\ page.showHistory
  /\ page' = [page EXCEPT !.showHistory = FALSE]
  /\ UNCHANGED <<assist, store, tasks>>

\* res.json() of an answer of GET /api/history
JsonOf(res) ==
  IF res.status = 200 THEN Arr(res.rows)
  ELSE Obj([k \in {"error"} |-> Str(res.error)])

\* the history server has answered the GET of a loadHistory, which keeps
\* the body whatever the status
LoadResolves(t) ==
  /\ t \in DOMAIN tasks
  /\ tasks[t].pc = "fetch"
  /\ tasks[t].call \in DOMAIN resp
  /\ page' = Render([page EXCEPT !.historyData = JsonOf(resp[tasks[t].call]),
                                 !.isLoadingHistory = FALSE])
  /\ tasks' = [tasks EXCEPT ![t].pc = "done"]
  /\ UNCHANGED <<assist, store>>

\* the network fails under the GET of a loadHistory: the catch logs
LoadRejects(t) ==
  /\ t \in DOMAIN tasks
  /\ tasks[t].pc = "fetch"
  /\ page' = Render([page EXCEPT !.isLoadingHistory = FALSE])
  /\ tasks' = [tasks EXCEPT ![t].pc = "done",
                 ![t].logged = <<[msg |-> "Failed to load history",
                                  arg |-> Error("Failed to fetch")]>>]
  /\ UNCHANGED <<assist, store>>

\* the result panel with its tabs is rendered
ResultShown == Truthy(page.result) /\ ~page.isReviewing

\* the welcome panel with its Chat with Code button is rendered
WelcomeShown ==
  /\ ~Truthy(page.result)
  /\ ~page.isReviewing
  /\ ~Truthy(page.error)
  /\ page.activeTab # "chat"

\* onClick of a tab button, or of Chat with Code
SetActiveTab(tabs) ==
  /\ Reachable
  /\ \E tab \in tabs \ {page.activeTab} :
       /\ ResultShown \/ (WelcomeShown /\ tab = "chat")
       /\ page' = [page EXCEPT !.activeTab = tab]
  /\ UNCHANGED <<assist, store, tasks>>

\* the chat box and its send button are rendered and can be used
ChatShown == Reachable /\ ResultShown /\ page.activeTab = "chat"

\* the service replies to the chat message of an App that is unmounted:
\* chatWithCode runs to its end and the setState calls change nothing
ChatSettlesUnmounted(r, replies) ==
  /\ r \in Awaiting
  /\ frames[r].op = "ask"
  /\ \E reply \in replies :
       frames' = [frames EXCEPT ![r] = ChatResume(frames[r], reply)]
  /\ UNCHANGED <<apiKey, chatMessages, chatInput, isChatLoading, model>>
  /\ UNCHANGED <<store, ui>>

(* the workspace *)

\* onClick of a file of the sidebar
SetActiveFileIndex(i) ==
  /\ Reachable
  /\ i + 1 \in DOMAIN page.files
  /\ i # page.activeFileIndex
  /\ page' = [page EXCEPT !.activeFileIndex = i]
  /\ UNCHANGED <<assist, store, tasks>>

Digits == "0123456789"

\* `${n}` of a number below ten
DigitText(n) == SubSeq(Digits, n + 1, n + 1)

\* addFile() on the page p: a new empty file, named after the count of
\* files, is appended and becomes the active one
addFile(p) ==
  [p EXCEPT !.files = Append(p.files,
                             [name |-> "file" \o DigitText(Len(p.files) + 1) \o ".js",
                              content |-> ""]),
            !.activeFileIndex = Len(p.files)]

\* files.filter((_, i) => i !== index)
Without(files, index) ==
  SubSeq(files, 1, index) \o SubSeq(files, index + 2, Len(files))

\* a removal that moves the active index only when it lies beyond the list
M_RemoveFileOffByOne(p, index) ==
  IF Len(p.files) <= 1 THEN p
  ELSE [p EXCEPT !.files = Without(p.files, index),
                 !.activeFileIndex =
                   IF p.activeFileIndex > Len(Without(p.files, index))
                   THEN Len(Without(p.files, index)) - 1
                   ELSE p.activeFileIndex]

\* removeFile(index) on the page p: nothing when one file is left; else the
\* file goes, and an active index past the end moves to the last file
removeFile(p, index) ==
  IF Len(p.files) <= 1 THEN p
  ELSE [p EXCEPT !.files = Without(p.files, index),
                 !.activeFileIndex =
                   IF p.activeFileIndex >= Len(Without(p.files, index))
                   THEN Len(Without(p.files, index)) - 1
                   ELSE p.activeFileIndex]

\* onClick of Add File
AddFile ==
  /\ Reachable
  /\ Len(page.files) < MaxFiles
  /\ page' = addFile(page)
  /\ UNCHANGED <<assist, store, tasks>>

\* removeFile(i) is called for the row i of the sidebar (whose button is
\* rendered while there is more than one file)
RemoveFile(i) ==
  /\ Reachable
  /\ i + 1 \in DOMAIN page.files
  /\ page' = removeFile(page, i)
  /\ UNCHANGED <<assist, store, tasks>>

\* setCode(newContent), onChange of the editor
SetCode(texts) ==
  /\ Reachable
  /\ \E newContent \in texts \ {Code(page)} :
       page' = [page EXCEPT !.files[page.activeFileIndex + 1].content = newContent]
  /\ UNCHANGED <<assist, store, tasks>>

(* voice commands *)

UpperCase == "ABCDEFGHIJKLMNOPQRSTUVWXYZ"
LowerCase == "abcdefghijklmnopqrstuvwxyz"

\* a character in lower case
LowerChar(c) ==
  IF \E k \in 1..Len(UpperCase) : SubSeq(UpperCase, k, k) = c
  THEN LET k == CHOOSE j \in 1..Len(UpperCase) : SubSeq(UpperCase, j, j) = c
       IN SubSeq(LowerCase, k, k)
  ELSE c

RECURSIVE toLowerCase(_)
\* s.toLowerCase(), on texts of ASCII characters
toLowerCase(s) ==
  IF Len(s) = 0 THEN ""
  ELSE IF Len(s) = 1 THEN LowerChar(s)
  ELSE LowerChar(SubSeq(s, 1, 1)) \o toLowerCase(SubSeq(s, 2, Len(s)))

\* the recognition toggleListening creates: its onresult handler is a
\* closure of the render in which the button was clicked
Recognition(p, m) ==
  [kind |-> "recognition", code |-> Code(p), model |-> m,
   activeTab |-> p.activeTab, results |-> 0]

\* onClick of the microphone button: a recognition that listens is stopped;
\* else, the microphone being granted, a new one starts
ToggleListening ==
  /\ Reachable
  /\ page' = IF page.isListening
             THEN [page EXCEPT !.isListening = FALSE]
             ELSE [page EXCEPT !.isListening = TRUE,
                               !.recognition = Recognition(page, model)]
  /\ UNCHANGED <<assist, store, tasks>>

\* recognition.onend
OnEnd ==
  /\ page.isListening
  /\ page' = Render([page EXCEPT !.isListening = FALSE])
  /\ UNCHANGED <<assist, store, tasks>>

\* recognition.onresult, once per recognition: a transcript that names a
\* review runs handleReview, any other one fills the chat box when the chat
\* tab was open
OnResult(transcripts) ==
  /\ page.isListening
  /\ page.recognition.results = 0
  /\ \E transcript \in transcripts :
       LET heard == [page EXCEPT !.recognition.results = 1]
       IN IF \/ Includes(toLowerCase(transcript), "refactor")
             \/ Includes(toLowerCase(transcript), "review")
          THEN /\ StartReview(heard, page.recognition.code, page.recognition.model)
               /\ UNCHANGED chatInput
          ELSE /\ page' = heard
               /\ chatInput' = IF page.recognition.activeTab = "chat" /\ ~Unmounted(page)
                               THEN transcript ELSE chatInput
               /\ UNCHANGED <<frames, tasks>>
  /\ UNCHANGED <<apiKey, chatMessages, isChatLoading, model>>
  /\ UNCHANGED store

(* the page, the service and the history server together *)

\* what the service replies to a review: a result, null, or a failure
PageReplies ==
  {Answer(Str(FullPayload)), Answer(Str(NullPayload)), Failure(Error("fetch failed"))}

InitPage ==
  /\ StoreOff
  /\ apiKey \in Keys
  /\ frames = <<>>
  /\ chatMessages = <<>>
  /\ chatInput = ""
  /\ isChatLoading = FALSE
  /\ model = "gemini-3-flash-preview"
  /\ PageOff

NextPage ==
  \/ ClickReview
  \/ ClickRetry
  \/ ClickDismiss
  \/ \E t \in DOMAIN tasks : ReviewReturns(t, PageReplies)
  \/ \E t \in DOMAIN tasks : SaveResolves(t)
  \/ \E t \in DOMAIN tasks : SaveRejects(t)
  \/ ClickHistory
  \/ CloseHistory
  \/ \E t \in DOMAIN tasks : LoadResolves(t)
  \/ \E t \in DOMAIN tasks : LoadRejects(t)
  \/ SetActiveTab({"issues", "chat"})
  \/ SetCode({" "})
  \/ ToggleListening
  \/ OnEnd
  \/ OnResult({"Review this", "why?"})
  \/ ChatShown /\ SetChatInput({"", "why?"})
  \/ ChatShown /\ HandleSendMessage(Code(page), "")
  \/ \E r \in DOMAIN frames :
       ~Unmounted(page) /\ ChatSettles(r, {Answer(Str("No."))})
  \/ \E r \in DOMAIN frames :
       Unmounted(page) /\ ChatSettlesUnmounted(r, {Answer(Str("No."))})
  \/ \E c \in inflight : HandleRecord(c, BOOLEAN)
  \/ \E c \in inflight : HandleList(c, BOOLEAN)

SpecPage == InitPage /\ [][NextPage]_vars

(* the workspace alone *)

Rows == 0..(MaxFiles - 1)

NextFiles ==
  \/ AddFile
  \/ \E i \in Rows : RemoveFile(i)
  \/ \E i \in Rows : SetActiveFileIndex(i)
  \/ SetCode({" "})

SpecFiles == InitPage /\ [][NextFiles]_vars

(* one review after the other, by button or by voice, and its save *)

\* fewer than MaxReviews calls of handleReview were made
FewReviews == Len(tasks) < MaxReviews

NextSave ==
  \/ FewReviews /\ ClickReview
  \/ ClickDismiss
  \/ \E t \in DOMAIN tasks : ReviewReturns(t, PageReplies)
  \/ \E t \in DOMAIN tasks : SaveResolves(t)
  \/ \E t \in DOMAIN tasks : SaveRejects(t)
  \/ SetActiveTab({"issues", "chat"})
  \/ SetActiveFileIndex(1)
  \/ SetCode({" "})
  \/ ToggleListening
  \/ OnEnd
  \/ FewReviews /\ OnResult({"Review this", "why?"})
  \/ \E c \in inflight : HandleRecord(c, BOOLEAN)

SpecSave == InitPage /\ [][NextSave]_vars

(* ------------------------- vocabulary of the claims ------------------- *)

Handled == DOMAIN resp
RecordCalls == {c \in 1..Len(calls) : calls[c].op = "record"}
ListCalls == {c \in 1..Len(calls) : calls[c].op = "list"}

IsText(v) == v.kind = "string" /\ Len(v.s) > 0
\* the two codes of a body are non-empty strings
Proper(body) == IsText(body.originalCode) /\ IsText(body.improvedCode)
\* originalCode ++ improvedCode of a proper body
Concat(body) == body.originalCode.s \o body.improvedCode.s
\* row r stores the pair of a proper body
HoldsPair(r, body) ==
  /\ r.originalCode = Text(body.originalCode.s)
  /\ r.improvedCode = Text(body.improvedCode.s)

LastIsRecord == last.id # 0 /\ calls[last.id].op = "record"
LastIsList == last.id # 0 /\ calls[last.id].op = "list"
LastBody == calls[last.id].body
LastRes == resp[last.id]

\* the language and the complexity fields a body asks to store
AskedMeta(body) ==
  <<OrElse(body.language, Str(<<"u", "n", "k", "n", "o", "w", "n">>)),
    OrElse(OptField(body.complexity, "cyclomatic"), Num(0))>>

(* --------------------------------- C1 --------------------------------- *)

\* C1: a record call whose (originalCode, improvedCode) pair is the pair of a
\* row already stored is answered 200 with inserted = false and leaves the
\* number of rows as it was, whatever language and complexity it carries
\* (storage not failing under the call; C8 covers that case).
C1_DuplicateIsNoOp ==
  (/\ LastIsRecord
   /\ ~last.fault
   /\ Proper(LastBody)
   /\ \E i \in 1..Len(before.db) : HoldsPair(before.db[i], LastBody))
  => /\ LastRes = [status |-> 200, success |-> TRUE, inserted |-> FALSE]
     /\ Len(db) = Len(before.db)

(* --------------------------------- C2 --------------------------------- *)

\* no request other than c and d carries codes that hash like c's or d's
NoThird(c, d) ==
  \A e \in RecordCalls \ {c, d} :
    HashOf(calls[e].body) \notin
      {Sha256Hex(Concat(calls[c].body)), Sha256Hex(Concat(calls[d].body))}

\* C2: two record calls with non-empty string codes whose concatenations
\* originalCode ++ improvedCode differ, neither stored before and neither
\* failing in the storage layer, both return inserted = true, and the table
\* then holds two distinct rows, one per pair.
C2_DistinctBothInserted ==
  \A c, d \in RecordCalls \cap Handled :
    (/\ c # d
     /\ Proper(calls[c].body) /\ Proper(calls[d].body)
     /\ Concat(calls[c].body) # Concat(calls[d].body)
     /\ ~calls[c].stored /\ ~calls[d].stored
     /\ resp[c].status # 500 /\ resp[d].status # 500
     /\ NoThird(c, d))
    => /\ resp[c] = [status |-> 200, success |-> TRUE, inserted |-> TRUE]
       /\ resp[d] = [status |-> 200, success |-> TRUE, inserted |-> TRUE]
       /\ \E i, j \in 1..Len(db) :
            /\ i # j
            /\ HoldsPair(db[i], calls[c].body)
            /\ HoldsPair(db[j], calls[d].body)

\* the same originalCode was recorded with two different improvedCode values
C2_Witness ==
  \E c, d \in RecordCalls \cap Handled :
    /\ c # d
    /\ Proper(calls[c].body) /\ Proper(calls[d].body)
    /\ calls[c].body.originalCode = calls[d].body.originalCode
    /\ calls[c].body.improvedCode # calls[d].body.improvedCode
    /\ resp[c].status = 200 /\ resp[c].inserted
    /\ resp[d].status = 200 /\ resp[d].inserted
    /\ Len(db) = 2

(* --------------------------------- C3 --------------------------------- *)

\* requests c and d were in flight at the same time
Overlap(c, d) == c \in calls[d].peers \/ d \in calls[c].peers

\* the rows that hold the hash of a text
RowsWithHashOf(text) == {i \in 1..Len(db) : db[i].hash = Text(Sha256Hex(text))}

\* C3: of two record calls with the same pair of non-empty string codes that
\* are in flight together, at most one row with their hash is ever committed;
\* once both are handled (storage not failing), neither is answered with an
\* error, at most one returns inserted = true, and exactly one does when no
\* row with that hash was stored as they were sent and no third request
\* hashes alike.
C3_RaceCommitsOnce ==
  \A c, d \in RecordCalls :
    (/\ c # d
     /\ Overlap(c, d)
     /\ Proper(calls[c].body)
     /\ calls[c].body.originalCode = calls[d].body.originalCode
     /\ calls[c].body.improvedCode = calls[d].body.improvedCode)
    => /\ Cardinality(RowsWithHashOf(Concat(calls[c].body))) <= 1
       /\ (/\ c \in Handled /\ d \in Handled
           /\ resp[c].status # 500 /\ resp[d].status # 500)
          => /\ resp[c].status = 200 /\ resp[d].status = 200
             /\ ~(resp[c].inserted /\ resp[d].inserted)
             /\ (~calls[c].stored /\ ~calls[d].stored /\ NoThird(c, d))
                => (resp[c].inserted \/ resp[d].inserted)

\* two overlapping calls with one pair are both handled: one inserted, the
\* other was told the row is already present
C3_Witness ==
  \E c, d \in RecordCalls \cap Handled :
    /\ c # d
    /\ Overlap(c, d)
    /\ Proper(calls[c].body)
    /\ calls[c].body.originalCode = calls[d].body.originalCode
    /\ calls[c].body.improvedCode = calls[d].body.improvedCode
    /\ resp[c] = [status |-> 200, success |-> TRUE, inserted |-> TRUE]
    /\ resp[d] = [status |-> 200, success |-> TRUE, inserted |-> FALSE]
    /\ Len(db) = 1

(* --------------------------------- C4 --------------------------------- *)

\* C4: every answer of list holds at most 100 records, each record's
\* timestamp being greater than or equal to that of the record after it.
C4_ListCappedAndSorted ==
  \A c \in ListCalls \cap Handled :
    resp[c].status = 200
    => /\ Len(resp[c].rows) <= 100
       /\ \A k \in 1..(Len(resp[c].rows) - 1) :
            ~TextLess(resp[c].rows[k].timestamp.v, resp[c].rows[k + 1].timestamp.v)

\* list answered from a table of more than 100 rows with a full page whose
\* first and last timestamps differ
C4_Witness ==
  /\ LastIsList
  /\ Len(before.db) > 100
  /\ LastRes.status = 200
  /\ Len(LastRes.rows) = 100
  /\ LastRes.rows[1].timestamp # LastRes.rows[100].timestamp

(* --------------------------------- C5 --------------------------------- *)

\* the places in the table of the rows a list answer returns, and of those
\* it leaves out
Returned(table, rows) ==
  LET ids == {rows[k].id : k \in 1..Len(rows)}
  IN {i \in 1..Len(table) : table[i].id \in ids}
LeftOut(table, rows) == (1..Len(table)) \ Returned(table, rows)

\* C5 as claimed: from a table of more than 100 rows list returns the 100
\* records inserted last; no omitted record was inserted after an included one.
C5_LastInserted ==
  (LastIsList /\ LastRes.status = 200 /\ Len(before.db) > 100)
  => /\ Len(LastRes.rows) = 100
     /\ \A j \in LeftOut(before.db, LastRes.rows) :
          \A i \in Returned(before.db, LastRes.rows) : j < i

\* C5 as amended: from a table of more than 100 rows list returns 100 of its
\* records, no two the same, and no omitted record has a timestamp later than
\* that of an included one.
C5_LatestTimestamps ==
  (LastIsList /\ LastRes.status = 200 /\ Len(before.db) > 100)
  => /\ Len(LastRes.rows) = 100
     /\ \A k \in 1..100 : \E i \in 1..Len(before.db) : before.db[i] = LastRes.rows[k]
     /\ Cardinality(Returned(before.db, LastRes.rows)) = 100
     /\ \A j \in LeftOut(before.db, LastRes.rows) :
          \A i \in Returned(before.db, LastRes.rows) :
            ~TextLess(before.db[i].timestamp.v, before.db[j].timestamp.v)

\* list answered from a table of more than 100 rows, leaving out a record
\* whose timestamp equals that of a record it returns
C5_Witness ==
  /\ LastIsList
  /\ LastRes.status = 200
  /\ Len(before.db) > 100
  /\ \E j \in LeftOut(before.db, LastRes.rows) :
       \E i \in Returned(before.db, LastRes.rows) :
         before.db[i].timestamp = before.db[j].timestamp

(* --------------------------------- C6 --------------------------------- *)

\* a code that is the empty string or is not in the body at all
Absent(v) == v = Missing \/ v = Str(<<>>)

\* C6: a record call whose originalCode or improvedCode is empty or missing
\* is answered 400 with an error body, and the table after it is the table
\* before it.
C6_EmptyIsRejected ==
  (LastIsRecord /\ (Absent(LastBody.originalCode) \/ Absent(LastBody.improvedCode)))
  => /\ LastRes.status = 400
     /\ "error" \in DOMAIN LastRes
     /\ db = before.db

\* a call with an empty improvedCode was rejected while the table held a row
C6_Witness ==
  /\ LastIsRecord
  /\ LastBody.originalCode = Str(TextA)
  /\ LastBody.improvedCode = Str(<<>>)
  /\ LastRes.status = 400
  /\ Len(db) = 1

(* --------------------------------- C7 --------------------------------- *)

\* C7: a record call in which originalCode or improvedCode is not a non-empty
\* string (a number, a boolean, an array, an object included) is answered
\* 400, never with success and never with 500.
C7_NonStringIsRejected ==
  (LastIsRecord /\ ~Proper(LastBody)) => LastRes.status = 400

(* --------------------------------- C8 --------------------------------- *)

\* C8: a record or list call under which the storage layer fails is answered
\* 500 with the handler's fixed message and nothing else, one line is logged
\* for it, and the table holds the rows it held before.
C8_FaultIsInternalError ==
  (last.id # 0 /\ last.fault)
  => /\ LastRes =
          [status |-> 500,
           error |-> IF LastIsRecord THEN "Failed to save history"
                     ELSE "Failed to read history"]
     /\ Len(log) = Len(before.log) + 1
     /\ log[Len(log)].msg =
          (IF LastIsRecord THEN "Error saving history:" ELSE "Error reading history:")
     /\ log[Len(log)].error = "SqliteError"
     /\ db = before.db

\* storage failed under a record call for a pair that was not stored, and
\* under a list call
C8_Witness ==
  /\ last.id # 0
  /\ last.fault
  /\ \E c \in RecordCalls \cap Handled, d \in ListCalls \cap Handled :
       /\ Proper(calls[c].body)
       /\ resp[c].status = 500
       /\ resp[d].status = 500
  /\ Len(db) = 0
  /\ Len(log) = 2

(* --------------------------------- C9 --------------------------------- *)

\* C9: no step updates or deletes a stored row: every row of the table is
\* still there afterwards, at its place and with every field unchanged, so
\* the number of rows never decreases.
C9_RowsAreImmutable ==
  [][/\ Len(db') >= Len(db)
     /\ \A i \in 1..Len(db) : db'[i] = db[i]]_vars

\* a duplicate with another language and another cyclomatic value was handled
\* at a later clock reading than the row's, and the row is as it was
C9_Witness ==
  /\ LastIsRecord
  /\ ~last.fault
  /\ Proper(LastBody)
  /\ Len(db) = 1
  /\ HoldsPair(db[1], LastBody)
  /\ LastRes.status = 200
  /\ ~LastRes.inserted
  /\ db[1].language # Text(AskedMeta(LastBody)[1].s)
  /\ db[1].cyclomaticComplexity.v # AskedMeta(LastBody)[2].n
  /\ db[1].timestamp # Text(ToISOString(now))

(* --------------------------------- C10 -------------------------------- *)

\* C10: the ids of the stored rows strictly increase in insertion order (so
\* no two rows share an id), and a row just inserted has an id greater than
\* every rowid the table drew before, ignored and rejected calls included.
C10_IdsIncrease ==
  /\ \A i, j \in 1..Len(db) : i < j => db[i].id < db[j].id
  /\ \A i \in 1..Len(db) : db[i].id <= seq
  /\ Len(db) > Len(before.db) => db[Len(db)].id > before.seq

\* a second row was inserted after the first
C10_Witness ==
  /\ LastIsRecord
  /\ LastRes.status = 200
  /\ LastRes.inserted
  /\ Len(db) = 2
  /\ db[2].id > db[1].id

(* --------------------------------- C11 -------------------------------- *)

\* two bodies alike in the four fields the handler destructures
SameRequest(b, c) ==
  /\ b.originalCode = c.originalCode
  /\ b.improvedCode = c.improvedCode
  /\ b.language = c.language
  /\ b.complexity = c.complexity

\* the last row of the table was inserted by the call handled last
LastInserted == LastIsRecord /\ Len(db) = Len(before.db) + 1

\* C11: two record requests that differ only in the timestamp, id and hash
\* fields of their bodies, run against the same table at the same clock
\* reading, leave the same table and get the same answer; what a handled
\* call left is what the handler leaves for its body without the three
\* fields at a clock reading not after now, and the row it inserted carries
\* the rowid the table drew and the digest of its two codes.
C11_StoreAssignsFields ==
  /\ \A b, c \in ClientBodies :
        SameRequest(b, c)
        => \A fault, keepRowid \in BOOLEAN :
             PostHistory(b, db, seq, now, fault, keepRowid)
               = PostHistory(c, db, seq, now, fault, keepRowid)
  /\ (LastIsRecord /\ ~last.fault)
     => \E t \in 0..now, keepRowid \in BOOLEAN :
          LET out == PostHistory(WithExtras(LastBody, NoExtras), before.db,
                                 before.seq, t, FALSE, keepRowid)
          IN db = out.db /\ seq = out.seq /\ LastRes = out.res
  /\ LastInserted
     => /\ db[Len(db)].id = NewRowid(before.db, before.seq)
        /\ db[Len(db)].hash = Text(Sha256Hex(Concat(LastBody)))

\* a body with a timestamp, an id and a hash of its own was inserted as the
\* second row, and the row has none of the three
C11_Witness ==
  /\ LastInserted
  /\ Len(db) = 2
  /\ LastBody.timestamp = Forged.timestamp
  /\ db[2].timestamp # Text(Forged.timestamp.s)
  /\ db[2].id # Forged.id.n
  /\ db[2].hash # Text(Forged.hash.s)

(* --------------------------------- C12 -------------------------------- *)

\* C12: every stored row has a cyclomaticComplexity that is an integer not
\* below 0, and a row inserted by a call that carried no cyclomatic value
\* has 0.
C12_CyclomaticIsNatural ==
  /\ \A i \in 1..Len(db) :
        /\ db[i].cyclomaticComplexity.type = "integer"
        /\ db[i].cyclomaticComplexity.v >= 0
  /\ (LastInserted /\ OptField(LastBody.complexity, "cyclomatic") = Missing)
     => db[Len(db)].cyclomaticComplexity = Integer(0)

(* ----------------------- vocabulary of C13 to C20 ---------------------- *)

ReviewFrames == {r \in DOMAIN frames : frames[r].op = "review"}
AskFrames == {r \in DOMAIN frames : frames[r].op = "ask"}
Settled == {r \in DOMAIN frames : frames[r].pc = "settled"}

\* the outcomes of the error taxonomy, by the message the caller gets
MissingCredentials == Throws(Error("GEMINI_API_KEY is not set"))
AuthFailed ==
  Throws(Error("Invalid API key configuration. Please check your environment variables."))
SafetyBlocked ==
  Throws(Error("The code review was blocked by safety filters. Please ensure your code follows safety guidelines."))
RateLimited ==
  Throws(Error("API quota exceeded or too many requests. Please wait a moment before trying again."))
EmptyResponse ==
  Throws(Error("The AI model returned an empty response. Please try again."))
MalformedResponse ==
  Throws(Error("Failed to process the AI's response. The generated content was not in the expected format."))

(* --------------------------------- C13 -------------------------------- *)

\* C13: with no credential configured (none in the environment, or an empty
\* one) every call of review and of ask has failed with the missing-credential
\* error without ever awaiting the service: it created no client, sent no
\* request and got no reply.
C13_NoKeyNoRequest ==
  ~Truthy(apiKey)
  => \A r \in DOMAIN frames :
       /\ frames[r].pc = "settled"
       /\ frames[r].out = MissingCredentials
       /\ frames[r].clients = 0
       /\ frames[r].sent = <<>>
       /\ frames[r].reply = NoReply

\* without a credential a review and a question were both refused, and the
\* chat shows the question and the error turn
C13_Witness ==
  /\ ~Truthy(apiKey)
  /\ \E r \in ReviewFrames, q \in AskFrames :
       /\ frames[r].out = MissingCredentials
       /\ frames[q].out = MissingCredentials
       /\ frames[r].sent = <<>> /\ frames[q].sent = <<>>
  /\ Len(chatMessages) = 2
  /\ ~isChatLoading

(* --------------------------------- C14 -------------------------------- *)

\* a value that is an object with every field the schema requires
Complete(v) == v.kind = "object" /\ RequiredFields \subseteq DOMAIN v.fields

\* C14: a review whose payload is valid JSON but lacks a field the schema
\* requires fails with the malformed-response error and returns no result.
C14_PartialIsRejected ==
  \A r \in ReviewFrames \cap Settled :
    (/\ frames[r].reply.kind = "answer"
     /\ Truthy(frames[r].reply.text)
     /\ JSONparse(frames[r].reply.text.s).ok
     /\ ~Complete(JSONparse(frames[r].reply.text.s).val))
    => frames[r].out = MalformedResponse

(* --------------------------------- C15 -------------------------------- *)

\* C15: a review whose payload is a text that does not parse fails with the
\* malformed-response error, whose message is that of no auth, safety, rate
\* limit or empty-response outcome and is what the catch block's
\* classification by substrings throws for it; both lines are logged.
C15_UnparsableIsMalformed ==
  /\ MalformedResponse \notin {AuthFailed, SafetyBlocked, RateLimited, EmptyResponse, MissingCredentials}
  /\ \A r \in ReviewFrames \cap Settled :
       (/\ frames[r].reply.kind = "answer"
        /\ Truthy(frames[r].reply.text)
        /\ ~JSONparse(frames[r].reply.text.s).ok)
       => /\ frames[r].out = MalformedResponse
          /\ frames[r].out.error = ReviewTry(frames[r].reply).out.error
          /\ Len(frames[r].logged) = 2
          /\ frames[r].logged[1].msg = "Failed to parse Gemini response:"
          /\ frames[r].logged[2].msg = "Gemini API Error:"

\* a review got a payload cut short and another one got prose; both failed
\* with the malformed-response error
C15_Witness ==
  \E r, q \in ReviewFrames \cap Settled :
    /\ frames[r].reply = Answer(Str(CutPayload))
    /\ frames[q].reply = Answer(Str(ProsePayload))
    /\ frames[r].out = MalformedResponse
    /\ frames[q].out = MalformedResponse

(* --------------------------------- C16 -------------------------------- *)

\* the reply is a failure of the request, or a payload that is empty or does
\* not parse
Unusable(reply) ==
  \/ reply.kind = "failure"
  \/ /\ reply.kind = "answer"
     /\ (~Truthy(reply.text) \/ ~JSONparse(reply.text.s).ok)

\* C16: a review invocation creates at most one client and sends at most one
\* request; it is settled as soon as the service has replied, and a reply
\* that is a failure or an unusable payload makes it throw.
C16_NoRetry ==
  \A r \in ReviewFrames :
    /\ Len(frames[r].sent) <= 1
    /\ frames[r].clients <= 1
    /\ frames[r].reply # NoReply => r \in Settled
    /\ (r \in Settled /\ Unusable(frames[r].reply)) => frames[r].out.kind = "thrown"

\* a review whose one request failed has thrown, and so has one whose
\* payload was empty
C16_Witness ==
  \E r, q \in ReviewFrames \cap Settled :
    /\ frames[r].reply = Failure(Error("fetch failed"))
    /\ Len(frames[r].sent) = 1
    /\ frames[r].out = Throws(Error("fetch failed"))
    /\ frames[q].reply = Answer(Str(""))
    /\ Len(frames[q].sent) = 1
    /\ frames[q].out = EmptyResponse

(* --------------------------------- C17 -------------------------------- *)

\* the language a snippet is written in, which detection finds
LanguageOf(code) == IF code = PythonCode THEN "python" ELSE "javascript"

\* the source language of a review: the one named, or the detected one
SourceLanguage(a) ==
  IF a.language = Str("auto") THEN LanguageOf(a.code.s) ELSE a.language.s

\* C17: the request of a review carries a conversion instruction exactly when
\* targetLanguage is present (and not empty), is not "none" and differs from
\* the source language, the detected one under "auto".
C17_ConversionOnlyWhenDiffers ==
  \A r \in ReviewFrames :
    \A k \in 1..Len(frames[r].sent) :
      (frames[r].sent[k].contents.conversion # "")
      <=> /\ Truthy(frames[r].args.targetLanguage)
          /\ frames[r].args.targetLanguage # Str("none")
          /\ frames[r].args.targetLanguage.s # SourceLanguage(frames[r].args)

(* --------------------------------- C18 -------------------------------- *)

\* the aliases and the models they stand for, written out
Aliases ==
  [m \in {"claude-4", "gpt-5", "microsoft-copilot", "github-copilot"} |->
     IF m = "claude-4" THEN "gemini-3-flash-preview" ELSE "gemini-3.1-pro-preview"]

Aliased(m) == IF m \in DOMAIN Aliases THEN Aliases[m] ELSE m

\* C18: mapModel maps the four aliases as the table says and returns every
\* other identifier unchanged, mapping twice is mapping once, and every
\* request of review and of ask names the mapped model of the call (the
\* default model when the call names none).
C18_ModelTable ==
  /\ \A m \in ModelIds :
       /\ mapModel(m) = Aliased(m)
       /\ mapModel(mapModel(m)) = mapModel(m)
  /\ \A r \in DOMAIN frames :
       \A k \in 1..Len(frames[r].sent) :
         frames[r].sent[k].model =
           Aliased(IF frames[r].args.model = Missing THEN "gemini-3-flash-preview"
                   ELSE frames[r].args.model.s)

\* a review under github-copilot and a question under claude-4 were sent to
\* the models the table names
C18_Witness ==
  \E r \in ReviewFrames, q \in AskFrames :
    /\ frames[r].args.model = Str("github-copilot")
    /\ Len(frames[r].sent) = 1
    /\ frames[r].sent[1].model = "gemini-3.1-pro-preview"
    /\ frames[q].args.model = Str("claude-4")
    /\ Len(frames[q].sent) = 1
    /\ frames[q].sent[1].model = "gemini-3-flash-preview"

(* --------------------------------- C19 -------------------------------- *)

\* a turn as the chat tab holds it, in the shape of a transcript turn
AsTurn(m) == [role |-> m.role, parts |-> <<[text |-> m.text]>>]

\* C19: the request of an ask call carries the history the call was given,
\* turn for turn, and the question as its message apart from it; the history
\* handleSendMessage gives to the n-th call is the 2(n-1) turns of the n-1
\* exchanges before it, each the question asked and the reply shown for it
\* (the answer, or the error turn of a failed call), and the question of the
\* n-th call is the turn after them.
C19_TranscriptVerbatim ==
  \A n \in AskFrames :
    /\ \A k \in 1..Len(frames[n].sent) :
         /\ frames[n].sent[k].history = frames[n].args.history.xs
         /\ frames[n].sent[k].message = frames[n].args.question.s
    /\ Len(frames[n].args.history.xs) = 2 * (n - 1)
    /\ \A i \in 1..(2 * (n - 1)) : frames[n].args.history.xs[i] = AsTurn(chatMessages[i])
    /\ chatMessages[2 * n - 1] = [role |-> "user", text |-> frames[n].args.question.s]
    /\ \A e \in 1..(n - 1) :
         /\ e \in Settled
         /\ chatMessages[2 * e].role = "model"
         /\ chatMessages[2 * e].text =
              (IF frames[e].out.kind = "returned" THEN frames[e].out.value.s
               ELSE "Error: Failed to get response from AI.")

\* the second question was sent with the first exchange as its history: the
\* first question and the answer of the service
C19_Witness ==
  /\ Len(frames) >= 2
  /\ Len(frames[2].sent) = 1
  /\ frames[1].reply = Answer(Str("It prints 1."))
  /\ frames[2].sent[1].history =
       <<[role |-> "user", parts |-> <<[text |-> frames[1].args.question.s]>>],
         [role |-> "model", parts |-> <<[text |-> "It prints 1."]>>]>>
  /\ frames[2].sent[1].message # frames[1].args.question.s

(* --------------------------------- C20 -------------------------------- *)

\* C20: an ask call made with a credential sends one request, no more, and
\* once the service has answered it returns the answer's text, or "I'm sorry,
\* I couldn't generate a response." when the answer has no text or an empty
\* one; an empty payload never makes it throw.
C20_OneRequestOrFallback ==
  \A r \in AskFrames :
    /\ Len(frames[r].sent) <= 1
    /\ Truthy(apiKey) => Len(frames[r].sent) = 1
    /\ (r \in Settled /\ frames[r].reply.kind = "answer")
       => frames[r].out =
            Returns(IF frames[r].reply.text \in {Missing, Str("")}
                    THEN Str("I'm sorry, I couldn't generate a response.")
                    ELSE frames[r].reply.text)

\* one question was answered with a text and another with an empty payload;
\* the chat shows the text and the fallback
C20_Witness ==
  /\ Len(frames) = 2
  /\ frames[1].reply = Answer(Str("No."))
  /\ frames[1].out = Returns(Str("No."))
  /\ frames[2].reply \in {Answer(Str("")), Answer(Missing)}
  /\ frames[2].out = Returns(Str("I'm sorry, I couldn't generate a response."))
  /\ Len(frames[2].sent) = 1
  /\ Len(chatMessages) = 4
  /\ chatMessages[4].text = "I'm sorry, I couldn't generate a response."


(* --------------------------------- C24 -------------------------------- *)

\* the error reviewCode throws when the service failed with an error whose
\* message is m, by the first of the substrings that m holds
ClassOf(m) ==
  LET has(needle) == m.kind = "string" /\ Includes(m.s, needle)
  IN IF has("API key") THEN AuthFailed
     ELSE IF has("safety") THEN SafetyBlocked
     ELSE IF has("quota") \/ has("429") THEN RateLimited
     ELSE IF m.kind = "string" /\ m.s # "" THEN Throws([message |-> m])
     ELSE Throws(Error("An error occurred while communicating with the AI. Please check your connection and try again."))

\* C24: a review whose request the service failed ends with the error of the
\* first substring its message holds, in the order "API key" (auth), "safety"
\* (safety block), "quota" or "429" (rate limit); a message holding none of
\* them is passed on as it is, or replaced by the default message when it is
\* empty or absent, and is then the message of none of the three named
\* outcomes.
C24_FirstMatchDecides ==
  /\ Cardinality({AuthFailed, SafetyBlocked, RateLimited}) = 3
  /\ \A r \in ReviewFrames \cap Settled :
       frames[r].reply.kind = "failure"
       => /\ frames[r].out = ClassOf(frames[r].reply.error.message)
          /\ (\A needle \in {"API key", "safety", "quota", "429"} :
                ~MessageIncludes(frames[r].reply.error, needle))
             => frames[r].out \notin {AuthFailed, SafetyBlocked, RateLimited}

\* a failure naming the API key, safety and the quota ended as an auth
\* failure, and one naming safety and the quota as a safety block
C24_Witness ==
  \E r, q \in ReviewFrames \cap Settled :
    /\ frames[r].reply = Failure(Error("API key blocked for safety: quota exceeded (429)"))
    /\ frames[r].out = AuthFailed
    /\ frames[q].reply = Failure(Error("blocked for safety, quota exceeded"))
    /\ frames[q].out = SafetyBlocked

(* --------------------------------- C25 -------------------------------- *)

\* request c carried two non-empty strings that differ from those of the
\* request handled last and concatenate to the same text
SplitsAlike(c) ==
  /\ Proper(calls[c].body)
  /\ Proper(LastBody)
  /\ <<calls[c].body.originalCode, calls[c].body.improvedCode>>
       # <<LastBody.originalCode, LastBody.improvedCode>>
  /\ Concat(calls[c].body) = Concat(LastBody)

\* C25: the deduplication key is the digest of the concatenation alone: a
\* record call with strings (c, d), handled after a successful record call
\* with different strings (a, b) such that a ++ b = c ++ d, is answered
\* inserted = false and leaves the table as it found it (storage not
\* failing under the call).
C25_ConcatenationIsTheKey ==
  (/\ LastIsRecord
   /\ ~last.fault
   /\ \E c \in (RecordCalls \cap Handled) \ {last.id} :
        SplitsAlike(c) /\ resp[c].status = 200)
  => /\ LastRes = [status |-> 200, success |-> TRUE, inserted |-> FALSE]
     /\ db = before.db

\* ("a", "aa") was inserted, then ("aa", "a") was answered inserted = false
C25_Witness ==
  /\ LastIsRecord
  /\ ~last.fault
  /\ \E c \in (RecordCalls \cap Handled) \ {last.id} :
       /\ SplitsAlike(c)
       /\ resp[c] = [status |-> 200, success |-> TRUE, inserted |-> TRUE]
  /\ LastRes = [status |-> 200, success |-> TRUE, inserted |-> FALSE]
  /\ Len(db) = 1

(* --------------------------------- C26 -------------------------------- *)

\* the record calls answered inserted = true
InsertedCalls ==
  {c \in RecordCalls \cap Handled : resp[c].status = 200 /\ resp[c].inserted}

\* C26: a record call is answered inserted = true exactly when it made the
\* table one row longer; every other answer (inserted = false, 400, 500)
\* leaves the number of rows as it was; so, from an empty table, the number
\* of rows is the number of calls answered inserted = true.
C26_InsertedCountsRows ==
  /\ LastIsRecord =>
       IF last.id \in InsertedCalls
       THEN Len(db) = Len(before.db) + 1
       ELSE Len(db) = Len(before.db)
  /\ Len(db) = Cardinality(InsertedCalls)

\* of the record calls handled, answers of every kind were given: one
\* inserted, and one was a duplicate, a bad request or a failure
C26_Witness ==
  /\ LastIsRecord
  /\ Cardinality(InsertedCalls) = 1
  /\ \E c \in (RecordCalls \cap Handled) \ InsertedCalls :
       resp[c].status \in {200, 400, 500}
  /\ Len(db) = 1


(* --------------------------------- C29 -------------------------------- *)

\* the turns shown are a user turn, a model turn, a user turn, and so on
Alternates ==
  \A i \in 1..Len(chatMessages) :
    chatMessages[i].role = IF i % 2 = 1 THEN "user" ELSE "model"

\* a turn that answers: the text chatWithCode returned to a call, or the
\* fixed text shown for a failed call
IsAnswerTurn(turn, fs) ==
  /\ turn.role = "model"
  /\ \/ turn.text = "Error: Failed to get response from AI."
     \/ \E r \in DOMAIN fs :
          /\ fs[r].op = "ask"
          /\ fs[r].out.kind = "returned"
          /\ fs[r].out.value = Str(turn.text)

\* a step that adds turns takes a question (one user turn, its text the
\* trimmed box, with the error turn behind it when the call threw at once)
\* or settles the pending one (one model turn)
TakesOrSettles ==
  \/ chatMessages' = chatMessages
  \/ /\ ~isChatLoading
     /\ Trim(chatInput) # ""
     /\ LET turn == [role |-> "user", text |-> Trim(chatInput)]
        IN \/ /\ chatMessages' = Append(chatMessages, turn)
              /\ isChatLoading'
           \/ /\ Len(chatMessages') = Len(chatMessages) + 2
              /\ SubSeq(chatMessages', 1, Len(chatMessages) + 1)
                   = Append(chatMessages, turn)
              /\ IsAnswerTurn(chatMessages'[Len(chatMessages')], frames')
              /\ ~isChatLoading'
  \/ /\ isChatLoading
     /\ Len(chatMessages') = Len(chatMessages) + 1
     /\ SubSeq(chatMessages', 1, Len(chatMessages)) = chatMessages
     /\ IsAnswerTurn(chatMessages'[Len(chatMessages')], frames')
     /\ ~isChatLoading'

\* C29: the turns of the chat alternate, user turn first, and a question is
\* pending exactly when the last turn is a user turn; every step that adds
\* turns either takes a question, which needs a non-blank box and no pending
\* question and adds one user turn, or settles the pending question with
\* one model turn: the answer, or "Error: Failed to get response from AI.".
C29_TurnsAlternate ==
  /\ [](Alternates /\ (isChatLoading <=> Len(chatMessages) % 2 = 1))
  /\ [][TakesOrSettles]_vars

\* two questions were asked: one was answered, the other failed
C29_Witness ==
  /\ Len(chatMessages) = 4
  /\ Alternates
  /\ ~isChatLoading
  /\ chatMessages[2].text = "It prints 1."
  /\ chatMessages[4].text = "Error: Failed to get response from AI."

(* ------------------------------- C23 ---------------------------------- *)

ReviewTasks == {t \in DOMAIN tasks : tasks[t].op = "handleReview"}

\* the reviewCode of task t has returned a result
Succeeded(t) ==
  /\ frames[tasks[t].frame].out.kind = "returned"
  /\ frames[tasks[t].frame].out.value.kind # "null"

\* the POST of task t carries the code submitted to its review and the
\* optimizedCode of its result
CarriesThePair(t) ==
  /\ tasks[t].call \in RecordCalls
  /\ calls[tasks[t].call].body.originalCode
       = Str(Chars(frames[tasks[t].frame].args.code.s))
  /\ calls[tasks[t].call].body.improvedCode
       = Str(Chars(frames[tasks[t].frame].out.value.fields["optimizedCode"].s))

\* C23: a history record is written only after a successful review.  Every
\* POST /api/history is the POST of exactly one handleReview; a handleReview
\* has posted if and only if its reviewCode has returned a result, and then
\* its POST carries the code submitted to that review as originalCode and the
\* result's optimizedCode as improvedCode; every reviewCode call is the
\* review of one handleReview, so that a review that failed, or a click that
\* submitted nothing, has no POST.
C23_SavedOncePerResult ==
  /\ \A c \in RecordCalls :
       Cardinality({t \in ReviewTasks : tasks[t].call = c}) = 1
  /\ \A r \in DOMAIN frames :
       Cardinality({t \in ReviewTasks : tasks[t].frame = r}) = 1
  /\ \A t \in ReviewTasks :
       /\ tasks[t].call # 0 <=> Succeeded(t)
       /\ tasks[t].call # 0 => CarriesThePair(t)
  /\ Cardinality(RecordCalls) = Cardinality({t \in ReviewTasks : Succeeded(t)})

\* the review of main.js has returned a result, its POST carried the text of
\* main.js and the history has stored it, while utils.js is open by now
C23_Witness ==
  /\ \E t \in ReviewTasks :
       /\ tasks[t].pc = "done"
       /\ tasks[t].call \in Handled
       /\ frames[tasks[t].frame].args.code.s = SAMPLE_CODE
       /\ calls[tasks[t].call].body.originalCode = Str(Chars(SAMPLE_CODE))
  /\ Code(page) = UtilsCode
  /\ Len(db) = 1

(* ------------------------------- C27 ---------------------------------- *)

\* in this step the reviewCode of task t returns a result to handleReview
ResultStep(t) == tasks[t].pc = "review" /\ tasks'[t].pc = "save"

\* in this step the save of task t fails: its fetch rejects, or resolves
\* with an answer that reports an error
SaveFailureStep(t) ==
  /\ tasks[t].pc = "save"
  /\ tasks'[t].pc = "done"
  /\ \/ tasks'[t].logged # <<>>
     \/ resp[tasks[t].call].status # 200

\* in this step a handleReview submits a review
SubmitStep ==
  /\ Len(tasks') = Len(tasks) + 1
  /\ tasks'[Len(tasks')].op = "handleReview"
  /\ tasks'[Len(tasks')].pc = "review"

\* the page shows the result of task t on the issues tab, and no error
ShowsResultOf(p, t) ==
  /\ p.result = frames[tasks[t].frame].out.value
  /\ p.activeTab = "issues"
  /\ p.error = JsNull

\* C27: a failure while saving history does not turn a successful review
\* into a failed one.  handleReview clears the error when it submits; when
\* reviewCode returns a result it sets result to it and the active tab to
\* "issues" and leaves the error alone; when the POST that follows is
\* rejected or answered with an error, result, active tab and error stay as
\* they are, so that, no other handleReview having run, the page then shows
\* the result on the issues tab with a null error.
C27_SaveFailureKeepsResult ==
  [][/\ SubmitStep => page'.error = JsNull
     /\ \A t \in DOMAIN tasks :
          /\ ResultStep(t) =>
               /\ page'.result = frames'[tasks[t].frame].out.value
               /\ page'.activeTab = "issues"
               /\ page'.error = page.error
          /\ SaveFailureStep(t) =>
               /\ page'.result = page.result
               /\ page'.activeTab = page.activeTab
               /\ page'.error = page.error
               /\ ReviewTasks = {t} => ShowsResultOf(page', t)]_vars

\* the chat tab was open when the microphone was switched on; since then the
\* one review has returned a result, the history store has answered its POST
\* with 500, and the page shows the result on the issues tab, without an error
C27_Witness ==
  /\ page.recognition.kind = "recognition"
  /\ page.recognition.activeTab = "chat"
  /\ ReviewTasks = {1}
  /\ tasks[1].pc = "done"
  /\ tasks[1].call \in Handled
  /\ resp[tasks[1].call].status = 500
  /\ ShowsResultOf(page, 1)
  /\ Truthy(page.result)

(* ------------------------------- C21 ---------------------------------- *)

\* the calls of the page that are in flight: the handleReview and
\* loadHistory invocations that have not run to their end, and the chat
\* messages that await their answer
PageCallsInFlight ==
  Cardinality(Unresolved) + Cardinality({r \in Awaiting : frames[r].op = "ask"})

\* C21: at any time at most one review, chat or history call issued by the
\* page is in flight: while a review is unresolved no user action starts a
\* second review, a chat call or a history load.
C21_OneCallAtATime == PageCallsInFlight <= 1

(* ------------------------------- C22 ---------------------------------- *)

\* in this step the history load of task t fails: its fetch rejects, or
\* resolves with an answer that reports an error
LoadFailureStep(t) ==
  /\ tasks[t].pc = "fetch"
  /\ tasks'[t].pc = "done"
  /\ \/ tasks'[t].logged # <<>>
     \/ resp[tasks[t].call].status # 200

\* C22: every error surfaces to the user as a message: when the history
\* store answers the save of a review or the load of the history with an
\* error (400, 500), or the network fails under it, the page shows a message
\* once the call has settled.
C22_FailuresAreShown ==
  [][\A t \in DOMAIN tasks :
       SaveFailureStep(t) \/ LoadFailureStep(t) => Truthy(page'.error)]_vars

(* ------------------------------- C28 ---------------------------------- *)

\* the handleReview invocations whose review or save has not settled
Reviewing == {t \in Unresolved : tasks[t].op = "handleReview"}

\* C28: a handleReview that submits a review sets isReviewing, and sets it
\* back once the review and, on success, the save that follows have settled,
\* on every path; isReviewing stays true until then, so that the result is
\* not displayed before the save has settled: on the mounted page
\* isReviewing is true exactly while a handleReview is unsettled.
C28_ReviewingUntilSettled ==
  ~Unmounted(page) => (page.isReviewing <=> Reviewing # {})

(* ------------------------------- C30 ---------------------------------- *)

\* C30: after any sequence of addFile, removeFile and file selections the
\* file list is never empty and activeFileIndex is a valid index into it
\* (0 <= activeFileIndex < files.length); removeFile changes nothing when
\* only one file remains.
C30_ActiveFileIsValid ==
  /\ Len(page.files) >= 1
  /\ page.activeFileIndex \in 0..(Len(page.files) - 1)
  /\ Len(page.files) = 1 => removeFile(page, 0) = page

\* the file that was added as the third one is the only file left, and the
\* active one
C30_Witness ==
  /\ Len(page.files) = 1
  /\ page.files[1].name = "file3.js"
  /\ page.activeFileIndex = 0

====
